---- MODULE Spec2Model ----
(***************************************************************************)
(* A model of the task-manager API's caching, idempotency and invalidation *)
(* layer: the request handlers of app/api/v1/routes (task, comment, user), *)
(* the queries of app/api/v1/crud and the Redis adapter and key policy of   *)
(* app/core/cache.py.                                                       *)
(*                                                                         *)
(* A handler is a sequence of steps, one per await on the store or on the  *)
(* cache: a step performs the I/O of that await and the local code up to   *)
(* the next await.  req[s] is the handler running in slot s; Return hands  *)
(* its response to the client and records it in `last`.                    *)
(*                                                                         *)
(* Not modelled: HTTP routing, JWT handling, rate limiting and log output  *)
(* (a logging call is a no-op here).  Python's hash() of a string is       *)
(* modelled as collision free.  A cache key is the tuple of its            *)
(* ':'-separated segments.  A run is shorter than the shortest TTL: no     *)
(* cache entry expires.  Redis answers throughout, except in SpecOutage,   *)
(* where it fails and recovers at any moment.                              *)
(***************************************************************************)
EXTENDS Integers, Sequences, FiniteSets, TLC

\* ---------------------------------------------------------------- bounds
NUsers == 2
MaxTasks == 2
MaxComments == 1
MaxRequests == 3
NSlots == 2

VARIABLES
    role,             \* users table: id -> role
    tasks,            \* tasks table: id -> row
    next_task_id,     \* the tasks table's id sequence
    owners,           \* history: id -> owner of every task ever inserted
    comments,         \* comments table: id -> row
    next_comment_id,  \* the comments table's id sequence
    cache,            \* Redis: key -> [v: JSON value, ttl: seconds, at: time set]
    cache_up,         \* whether Redis answers
    jobs,             \* enrichment jobs handed to the broker (task ids)
    req,              \* slot -> the request handler running in it
    last,             \* the latest successful response of a mutating handler
    nreq,             \* requests admitted so far
    tokens,           \* history: id -> Idempotency-Key of the request that inserted it
    worker,           \* the enrichment job the Celery worker is running
    probe,            \* the cache-key functions applied to a pair of filter dicts
    clock,            \* Redis' clock: seconds elapsed, and the steps it took
    limiter,          \* slowapi: the hits counted in the current window, per key
    auth              \* the latest answer of the login and /users/me endpoints

vars == <<role, tasks, next_task_id, owners, comments, next_comment_id, cache,
          cache_up, jobs, req, last, nreq, tokens, worker, probe, clock, limiter, auth>>

Users == 1..NUsers
Slots == 1..NSlots

\* ------------------------------------------------------- Python values
\* Optional[T]: None is the empty tuple, a present value x is <<x>>.
None == <<>>
Some(x) == <<x>>
Val(o) == o[1]

\* Python truthiness of an Optional[str] / Optional[int].
TruthyStr(o) == o # None /\ Val(o) # ""
TruthyInt(o) == o # None /\ Val(o) # 0

\* A datetime with clock value n, its str() ("YYYY-MM-DD HH:MM:SS"), its
\* isoformat() ("YYYY-MM-DDTHH:MM:SS") and pydantic's parse of either.
Datetime(n) == <<"datetime", n>>
PyStrDatetime(d) == IF d[1] = "datetime" THEN <<"str", d[2]>> ELSE d
IsoFormat(d) == IF d[1] = "datetime" THEN <<"iso", d[2]>> ELSE d
ParseDatetime(d) == <<"datetime", d[2]>>

\* str.replace("Z", "+00:00")
RECURSIVE ReplaceZ(_)
ReplaceZ(str) ==
    IF str = "" THEN ""
    ELSE (IF SubSeq(str, 1, 1) = "Z" THEN "+00:00" ELSE SubSeq(str, 1, 1))
             \o ReplaceZ(SubSeq(str, 2, Len(str)))

\* datetime.fromisoformat: the datetime, or None where it raises ValueError.
\* Day n of 2025 is clock value n.
fromisoformat(str) ==
    CASE str = "2025-01-01T00:00:00+00:00" -> Some(Datetime(1))
      [] str = "2025-01-02T00:00:00+00:00" -> Some(Datetime(2))
      [] OTHER -> None

PyStrBool(b) == IF b THEN "True" ELSE "False"
PyStrOptInt(o) == IF o = None THEN None ELSE Some(ToString(Val(o)))
PyReprOptInt(o) == IF o = None THEN "None" ELSE ToString(Val(o))
PyReprOptStr(o) == IF o = None THEN "None" ELSE "'" \o Val(o) \o "'"

\* hash(str) rendered in decimal: collision free here.
PyHash(str) == "h(" \o str \o ")"

RECURSIVE Join(_, _)
Join(strs, sep) ==
    IF strs = <<>> THEN ""
    ELSE IF Len(strs) = 1 THEN strs[1]
    ELSE strs[1] \o sep \o Join(Tail(strs), sep)

\* ------------------------------------------------------ input domains
Roles == {"admin", "user"}
Statuses == {"pending", "completed"}
Titles == {"t", "u"}
Contents == {"c", "d"}
IdempotencyKeys == {None, Some(""), Some("k1")}
StatusFilters == {None, Some("pend")}

\* ILIKE '%pat%': pat is a case-insensitive substring of s.
ILikeContains(pat, s) ==
    <<pat, s>> \in {<<"pend", "pending">>, <<"pending", "pending">>,
                    <<"completed", "completed">>, <<"t", "t">>, <<"u", "u">>}

\* ------------------------------------------------------- schemas/task.py
TaskRead_from_orm(row) ==
    [id |-> row.id, title |-> row.title, description |-> row.description,
     status |-> row.status, owner_id |-> row.owner_id,
     created_at |-> row.created_at, task_metadata |-> row.task_metadata]

\* TaskRead(**d): pydantic parses created_at back into a datetime.
TaskRead_parse(d) ==
    [id |-> d.id, title |-> d.title, description |-> d.description,
     status |-> d.status, owner_id |-> d.owner_id,
     created_at |-> ParseDatetime(d.created_at),
     task_metadata |-> d.task_metadata]

CommentRead_from_orm(row) ==
    [id |-> row.id, content |-> row.content, task_id |-> row.task_id,
     user_id |-> row.user_id, created_at |-> row.created_at]

\* json.dumps(value, default=str): a datetime is written as its str().
JsonTask(d) == [d EXCEPT !.created_at = PyStrDatetime(@)]
JsonItems(items) == [i \in DOMAIN items |-> JsonTask(items[i])]
JsonPage(p) == [p EXCEPT !.items = JsonItems(@)]

\* The body FastAPI sends for a value under its response_model: every item
\* is validated into the model and its datetime written in ISO format.
BodyTask(d) == [d EXCEPT !.created_at = IsoFormat(ParseDatetime(@))]
BodyPage(p) == [p EXCEPT !.items = [i \in DOMAIN @ |-> BodyTask(@[i])]]

\* -------------------------------------------------- schemas/pagination.py
PaginatedResponse_create(items, total, page, page_size) ==
    LET total_pages == (total + page_size - 1) \div page_size
    IN  [items |-> items, total |-> total, page |-> page,
         page_size |-> page_size, total_pages |-> total_pages,
         has_next |-> page < total_pages, has_prev |-> page > 1]

Offset(page, page_size) == (page - 1) * page_size

\* ------------------------------------------------------- core/cache.py
\* glob match of a key against a pattern whose last segment may be '*'
GlobMatch(pattern, key) ==
    IF pattern[Len(pattern)] = "*"
    THEN /\ Len(key) >= Len(pattern)
         /\ SubSeq(key, 1, Len(pattern) - 1) = SubSeq(pattern, 1, Len(pattern) - 1)
    ELSE key = pattern

cache_get(c, up, key) ==
    IF up /\ key \in DOMAIN c THEN Some(c[key].v) ELSE None

\* Variant of cache.set that takes its default expire_seconds = 300, whatever
\* the caller asks.
cache_set_default_expiry(c, up, key, value, expire_seconds) ==
    IF up THEN (key :> [v |-> value, ttl |-> 300, at |-> clock.now]) @@ c
    ELSE c

cache_set(c, up, key, value, expire_seconds) ==
    IF up THEN (key :> [v |-> value, ttl |-> expire_seconds, at |-> clock.now]) @@ c
    ELSE c

cache_delete_keys(c, up, keys) ==
    IF up THEN [k \in DOMAIN c \ keys |-> c[k]] ELSE c

cache_delete(c, up, key) == cache_delete_keys(c, up, {key})

\* Variant of cache_keys that answers every key, whatever the pattern.
cache_keys_every(c, up, pattern) == IF up THEN DOMAIN c ELSE {}

cache_keys(c, up, pattern) ==
    IF up THEN {k \in DOMAIN c : GlobMatch(pattern, k)} ELSE {}

IdempotencyTTL == 86400
idempotency_cache_key(key) == <<"idempotency", key>>

\* "_".join(f"{k}:{v}" for k, v in sorted(filters.items()) if v is not None)
\* A dict is the sequence of its <<name, Optional[str(value)]>> items in
\* insertion order; sorted() orders the items by name (names are unique, so
\* values are never compared).
FieldRank ==
    [created_after |-> 1, created_before |-> 2, is_admin |-> 3,
     owner_id |-> 4, page |-> 5, page_size |-> 6, status |-> 7,
     title_contains |-> 8]

RECURSIVE InsertItem(_, _)
InsertItem(item, sorted) ==
    IF sorted = <<>> THEN <<item>>
    ELSE IF FieldRank[item[1]] <= FieldRank[Head(sorted)[1]] THEN <<item>> \o sorted
    ELSE <<Head(sorted)>> \o InsertItem(item, Tail(sorted))

RECURSIVE SortedItems(_)
SortedItems(items) ==
    IF items = <<>> THEN <<>>
    ELSE InsertItem(Head(items), SortedItems(Tail(items)))

\* Variant of FilterStr that joins the items in the dict's own order.
FilterStr_unsorted(items) ==
    LET present(i) == i[2] # None
        kept == SelectSeq(items, present)
    IN  Join([n \in DOMAIN kept |-> kept[n][1] \o ":" \o Val(kept[n][2])], "_")

FilterStr(items) ==
    LET present(i) == i[2] # None
        kept == SelectSeq(SortedItems(items), present)
    IN  Join([n \in DOMAIN kept |-> kept[n][1] \o ":" \o Val(kept[n][2])], "_")

make_task_cache_key(user_id, filters) ==
    <<"tasks", "user", ToString(user_id), PyHash(FilterStr(filters))>>

make_task_detail_cache_key(task_id) == <<"task", ToString(task_id)>>

\* Variant of make_user_tasks_cache_key without the ':' before the '*'.
make_user_tasks_cache_key_no_colon(user_id) ==
    <<"tasks", "user", ToString(user_id) \o "*">>

make_user_tasks_cache_key(user_id) == <<"tasks", "user", ToString(user_id), "*">>

\* The key as the string Redis sees, and Redis' glob match of such a string
\* against a pattern whose only wildcard is a trailing '*'.
KeyString(key) == Join(key, ":")

StringGlobMatch(pattern, name) ==
    LET n == Len(pattern) - 1
    IN  IF SubSeq(pattern, n + 1, n + 1) = "*"
        THEN Len(name) >= n /\ SubSeq(name, 1, n) = SubSeq(pattern, 1, n)
        ELSE name = pattern

AllUsersTasksPattern == <<"tasks", "user", "*">>
CommentsPattern == <<"comments", "*">>
task_stats_cache_key(user_id) == <<"task_stats", "user", ToString(user_id)>>

\* f"comments:user:{id}:page:{page}:size:{page_size}:filters:{hash(str(filters.dict()))}"
CommentFiltersStr(filters) ==
    "{'task_id': " \o PyReprOptInt(filters.task_id) \o
    ", 'user_id': " \o PyReprOptInt(filters.user_id) \o
    ", 'content_contains': " \o PyReprOptStr(filters.content_contains) \o "}"

comments_cache_key(user_id, page, page_size, filters) ==
    <<"comments", "user", ToString(user_id), "page", ToString(page),
      "size", ToString(page_size), "filters", PyHash(CommentFiltersStr(filters))>>

\* ------------------------------------------------------------ the store
\* rows ordered by created_at, newest first
RECURSIVE OrderByCreatedDesc(_)
OrderByCreatedDesc(rows) ==
    IF rows = {} THEN <<>>
    ELSE LET newest == CHOOSE x \in rows :
                           \A y \in rows : y.created_at[2] <= x.created_at[2]
         IN  <<newest>> \o OrderByCreatedDesc(rows \ {newest})

\* OFFSET offset LIMIT limit
OffsetLimit(seq, offset, limit) ==
    SubSeq(seq, offset + 1, IF offset + limit < Len(seq) THEN offset + limit ELSE Len(seq))

Rows(table) == {table[i] : i \in DOMAIN table}

get_task_by_id(ts, task_id) ==
    IF task_id \in DOMAIN ts THEN Some(ts[task_id]) ELSE None

get_comment_by_id(cs, comment_id) ==
    IF comment_id \in DOMAIN cs THEN Some(cs[comment_id]) ELSE None

\* crud/task.py get_tasks_with_pagination, the date filters: the filter whose
\* parse raises ValueError, None when both parse.
InvalidDateFilter(filters) ==
    IF TruthyStr(filters.created_after)
       /\ fromisoformat(ReplaceZ(Val(filters.created_after))) = None
    THEN Some("created_after")
    ELSE IF TruthyStr(filters.created_before)
            /\ fromisoformat(ReplaceZ(Val(filters.created_before))) = None
         THEN Some("created_before")
         ELSE None

\* Variant of get_tasks_with_pagination without the ownership condition.
get_tasks_with_pagination_unscoped(ts, page, page_size, filters, current_user_id, is_admin) ==
    LET cond(t) ==
            /\ TruthyStr(filters.status) => ILikeContains(Val(filters.status), t.status)
            /\ TruthyStr(filters.title_contains) =>
                   ILikeContains(Val(filters.title_contains), t.title)
            /\ TruthyStr(filters.created_after) =>
                   t.created_at[2] >= Val(fromisoformat(ReplaceZ(Val(filters.created_after))))[2]
            /\ TruthyStr(filters.created_before) =>
                   t.created_at[2] <= Val(fromisoformat(ReplaceZ(Val(filters.created_before))))[2]
        matching == {t \in Rows(ts) : cond(t)}
    IN  <<OffsetLimit(OrderByCreatedDesc(matching), Offset(page, page_size), page_size),
          Cardinality(matching)>>

\* crud/task.py get_tasks_with_pagination: <<rows of the page, total>>
get_tasks_with_pagination(ts, page, page_size, filters, current_user_id, is_admin) ==
    LET cond(t) ==
            /\ IF ~is_admin THEN t.owner_id = current_user_id
               ELSE filters.owner_id # None => t.owner_id = Val(filters.owner_id)
            /\ TruthyStr(filters.status) => ILikeContains(Val(filters.status), t.status)
            /\ TruthyStr(filters.title_contains) =>
                   ILikeContains(Val(filters.title_contains), t.title)
            /\ TruthyStr(filters.created_after) =>
                   t.created_at[2] >= Val(fromisoformat(ReplaceZ(Val(filters.created_after))))[2]
            /\ TruthyStr(filters.created_before) =>
                   t.created_at[2] <= Val(fromisoformat(ReplaceZ(Val(filters.created_before))))[2]
        matching == {t \in Rows(ts) : cond(t)}
    IN  <<OffsetLimit(OrderByCreatedDesc(matching), Offset(page, page_size), page_size),
          Cardinality(matching)>>

\* crud/task.py get_task_statistics: {"total": n, <status>: count, ...}
get_task_statistics(ts, user_id) ==
    LET mine == {t \in Rows(ts) : t.owner_id = user_id}
        present == {t.status : t \in mine}
    IN  [total |-> Cardinality(mine),
         counts |-> [st \in present |-> Cardinality({t \in mine : t.status = st})]]

\* Variant of ApplyTaskUpdates for a TaskUpdate that also carries metadata:
\* a status update stamps the metadata field.
ApplyTaskUpdates_with_metadata(row, updates) ==
    [row EXCEPT !.title = IF updates.title # None THEN Val(updates.title) ELSE @,
                !.status = IF updates.status # None THEN Val(updates.status) ELSE @,
                !.task_metadata = IF updates.status # None
                                  THEN Some([id |-> row.id, completed |-> TRUE]) ELSE @]

\* crud/task.py update_task: UPDATE tasks SET ... WHERE id = task_id RETURNING
ApplyTaskUpdates(row, updates) ==
    [row EXCEPT !.title = IF updates.title # None THEN Val(updates.title) ELSE @,
                !.status = IF updates.status # None THEN Val(updates.status) ELSE @]

\* crud/comment.py get_comments_with_pagination (admins)
get_comments_with_pagination(cs, page, page_size, filters) ==
    LET cond(c) ==
            /\ TruthyInt(filters.task_id) => c.task_id = Val(filters.task_id)
            /\ TruthyInt(filters.user_id) => c.user_id = Val(filters.user_id)
            /\ TruthyStr(filters.content_contains) =>
                   ILikeContains(Val(filters.content_contains), c.content)
        matching == {c \in Rows(cs) : cond(c)}
    IN  <<OffsetLimit(OrderByCreatedDesc(matching), Offset(page, page_size), page_size),
          Cardinality(matching)>>

\* crud/comment.py get_user_related_comments_with_pagination (regular users)
get_user_related_comments_with_pagination(cs, ts, user_id, page, page_size, filters) ==
    LET cond(c) ==
            /\ c.task_id \in DOMAIN ts
            /\ c.user_id = user_id \/ ts[c.task_id].owner_id = user_id
            /\ TruthyInt(filters.task_id) => c.task_id = Val(filters.task_id)
            /\ TruthyStr(filters.content_contains) =>
                   ILikeContains(Val(filters.content_contains), c.content)
        matching == {c \in Rows(cs) : cond(c)}
    IN  <<OffsetLimit(OrderByCreatedDesc(matching), Offset(page, page_size), page_size),
          Cardinality(matching)>>

\* ------------------------------------------------------------- requests
TaskListQueries ==
    {[page |-> 1, page_size |-> 20, status |-> None, owner_id |-> None,
      created_after |-> None, created_before |-> None],
     [page |-> 1, page_size |-> 1, status |-> Some("pend"), owner_id |-> Some(1),
      created_after |-> None, created_before |-> None]}

\* ?created_after= / ?created_before= as sent by the client
DateFilters ==
    {None, Some(""), Some("invalid-date"), Some("2025-01-01T00:00:00Z"),
     Some("2025-01-02T00:00:00+00:00")}

DatedTaskListQueries ==
    {[page |-> 1, page_size |-> 20, status |-> None, owner_id |-> None,
      created_after |-> a, created_before |-> b] :
       a \in DateFilters, b \in {None, Some("invalid-date"), Some("2025-01-01T00:00:00Z")}}

TaskUpdates ==
    {[title |-> None, status |-> None],
     [title |-> Some("u"), status |-> None],
     [title |-> None, status |-> Some("completed")]}

CommentListQueries ==
    {[page |-> 1, page_size |-> 20, task_id |-> None, user_id |-> None],
     [page |-> 1, page_size |-> 20, task_id |-> Some(1), user_id |-> Some(1)]}

Idle == [pc |-> "idle"]
NoLocals == [task |-> None, comment |-> None, resp |-> None, plan |-> <<>>, keys |-> {}]
NoResponse == [kind |-> "none"]

store == <<role, tasks, next_task_id, owners, comments, next_comment_id>>

Running(s) == req[s].pc # "idle"
InFlight(kind) == Cardinality({s \in Slots : Running(s) /\ req[s].kind = kind})

\* api/deps.py get_current_user: the principal is read from the users table
\* when the request starts; the handler works on that snapshot.
Admit(s, kind, uid, args, pc0) ==
    /\ ~Running(s)
    /\ nreq < MaxRequests
    /\ nreq' = nreq + 1
    /\ req' = [req EXCEPT ![s] =
                 [kind |-> kind, uid |-> uid, role |-> role[uid], a |-> args,
                  pc |-> pc0, l |-> NoLocals, status |-> 0, body |-> None,
                  from_cache |-> FALSE, committed |-> FALSE, ops |-> <<>>]]
    /\ UNCHANGED <<store, cache, cache_up, jobs, last, tokens, worker, probe, clock, limiter, auth>>

At(s, pc) == Running(s) /\ req[s].pc = pc

\* raise HTTPException / return: the response is ready to be sent
Finish(r, status, body) == [r EXCEPT !.pc = "ret", !.status = status, !.body = body]
Did(r, op) == [r EXCEPT !.ops = Append(@, op)]
Goto(r, pc) == [r EXCEPT !.pc = pc]

IsAdmin(r) == r.role = "admin"

\* The handlers that write to the store.
Mutating ==
    {"create_task", "update_task", "delete_task", "create_comment",
     "update_comment", "delete_comment", "update_user"}

\* The response reaches the client.  `last` keeps the latest successful
\* response of a mutating handler.
Return(s) ==
    /\ At(s, "ret")
    /\ last' = IF req[s].kind \in Mutating /\ req[s].status < 400
               THEN [kind |-> req[s].kind, uid |-> req[s].uid, role |-> req[s].role,
                     a |-> req[s].a, status |-> req[s].status,
                     body |-> req[s].body, ops |-> req[s].ops]
               ELSE last
    /\ req' = [req EXCEPT ![s] = Idle]
    /\ UNCHANGED <<store, cache, cache_up, jobs, nreq, tokens, worker, probe, clock, limiter, auth>>

\* ---- the invalidation calls of a mutating handler, in program order ----
\* plan: the cache.delete / cache.delete_pattern calls still to be awaited.
\* When the last one is done the handler runs to its return statement;
\* create_task hands the enrichment job to the broker on the way:
\* fetch_task_metadata.delay(task.id).  The broker is the Redis server the
\* cache uses (core/celery_app.py: broker = backend = settings.REDIS_URL), and
\* .delay is not guarded: when Redis is down the publish raises kombu's
\* OperationalError, which is not a RedisError, so the request ends in the
\* general exception handler of main.py with status 500.
Epilogue(r) ==
    IF r.l.plan # <<>> THEN Goto(r, "invalidate")
    ELSE IF r.kind = "create_task" /\ ~cache_up
         THEN Finish(Did(r, "publish_error"), 500, None)
         ELSE Goto(r, "ret")

\* Variant of Enqueued for a handler that returns without the .delay call.
Enqueued_never(r) == jobs

Enqueued(r) ==
    IF r.l.plan = <<>> /\ r.kind = "create_task" /\ cache_up
    THEN Append(jobs, r.l.task.id) ELSE jobs

PopPlan(r) == [r EXCEPT !.l.plan = Tail(@), !.l.keys = {}]

\* cache.delete(key)
InvalidateDelete(s) ==
    /\ At(s, "invalidate")
    /\ Head(req[s].l.plan)[1] = "delete"
    /\ LET r == PopPlan(Did(req[s], "cache_delete"))
       IN  /\ cache' = cache_delete(cache, cache_up, Head(req[s].l.plan)[2])
           /\ req' = [req EXCEPT ![s] = Epilogue(r)]
           /\ jobs' = Enqueued(r)
    /\ UNCHANGED <<store, cache_up, last, nreq, tokens, worker, probe, clock, limiter, auth>>

\* cache.delete_pattern(pattern), first await: KEYS pattern
InvalidateKeys(s) ==
    /\ At(s, "invalidate")
    /\ Head(req[s].l.plan)[1] = "delete_pattern"
    /\ LET keys == cache_keys(cache, cache_up, Head(req[s].l.plan)[2])
           r == Did(req[s], "cache_delete_pattern")
       IN  IF keys = {}
           THEN /\ req' = [req EXCEPT ![s] = Epilogue(PopPlan(r))]
                /\ jobs' = Enqueued(PopPlan(r))
           ELSE /\ req' = [req EXCEPT ![s] = Goto([r EXCEPT !.l.keys = keys], "invalidate_del")]
                /\ jobs' = jobs
    /\ UNCHANGED <<store, cache, cache_up, last, nreq, tokens, worker, probe, clock, limiter, auth>>

\* cache.delete_pattern(pattern), second await: DEL of the keys found
InvalidateDel(s) ==
    /\ At(s, "invalidate_del")
    /\ LET r == PopPlan(Did(req[s], "cache_del_keys"))
       IN  /\ cache' = cache_delete_keys(cache, cache_up, req[s].l.keys)
           /\ req' = [req EXCEPT ![s] = Epilogue(r)]
           /\ jobs' = Enqueued(r)
    /\ UNCHANGED <<store, cache_up, last, nreq, tokens, worker, probe, clock, limiter, auth>>

\* ------------------------------------------------ routes/task.py create_task
create_task_invalidation(r) ==
    << <<"delete_pattern", make_user_tasks_cache_key(r.uid)>> >>

StartCreateTask(s, uid, title, status, idempotency_key) ==
    /\ next_task_id + InFlight("create_task") <= MaxTasks
    /\ Admit(s, "create_task", uid,
             [title |-> title, status |-> status, idempotency_key |-> idempotency_key],
             IF TruthyStr(idempotency_key) THEN "ct_idem_get" ELSE "ct_insert")

\* Variant of create_task_lookup that answers from the stored response but
\* still runs the handler's invalidation and enqueue.
create_task_lookup_then_invalidate(s) ==
    /\ At(s, "ct_idem_get")
    /\ LET r == Did(req[s], "cache_get")
           cached == cache_get(cache, cache_up,
                               idempotency_cache_key(Val(r.a.idempotency_key)))
       IN  req' = [req EXCEPT ![s] =
                     IF cached # None
                     THEN Goto([r EXCEPT !.from_cache = TRUE, !.status = 201,
                                         !.body = BodyTask(TaskRead_parse(Val(cached))),
                                         !.l.task = TaskRead_parse(Val(cached)),
                                         !.l.plan = create_task_invalidation(r)],
                               "invalidate")
                     ELSE Goto(r, "ct_insert")]
    /\ UNCHANGED <<store, cache, cache_up, jobs, last, nreq, tokens, worker, probe, clock, limiter, auth>>

\* cached_response = await cache.get_idempotency(idempotency_key)
create_task_lookup(s) ==
    /\ At(s, "ct_idem_get")
    /\ LET r == Did(req[s], "cache_get")
           cached == cache_get(cache, cache_up,
                               idempotency_cache_key(Val(r.a.idempotency_key)))
       IN  req' = [req EXCEPT ![s] =
                     IF cached # None
                     THEN Finish([r EXCEPT !.from_cache = TRUE], 201,
                                 BodyTask(TaskRead_parse(Val(cached))))
                     ELSE Goto(r, "ct_insert")]
    /\ UNCHANGED <<store, cache, cache_up, jobs, last, nreq, tokens, worker, probe, clock, limiter, auth>>

\* Variant of create_task_insert on a table with a unique token column: the
\* insert is refused when a task of the same token is already persisted.
create_task_insert_unique(s) ==
    /\ At(s, "ct_insert")
    /\ LET r == req[s]
           row == [id |-> next_task_id, title |-> r.a.title, description |-> None,
                   status |-> r.a.status, owner_id |-> r.uid,
                   created_at |-> Datetime(next_task_id), task_metadata |-> None]
           r2 == [Did(r, "db_commit") EXCEPT
                     !.l.task = row, !.committed = TRUE, !.status = 201,
                     !.body = BodyTask(TaskRead_from_orm(row)),
                     !.l.plan = create_task_invalidation(r)]
           taken == /\ TruthyStr(r.a.idempotency_key)
                    /\ \E t \in DOMAIN tasks : tokens[t] = r.a.idempotency_key
       IN  IF taken
           THEN /\ req' = [req EXCEPT ![s] = Finish(Did(r, "db_error"), 500, None)]
                /\ UNCHANGED <<tasks, next_task_id, owners, tokens>>
           ELSE /\ tasks' = (next_task_id :> row) @@ tasks
                /\ next_task_id' = next_task_id + 1
                /\ owners' = (next_task_id :> r.uid) @@ owners
                /\ tokens' = (next_task_id :> r.a.idempotency_key) @@ tokens
                /\ req' = [req EXCEPT ![s] =
                              Goto(r2, IF TruthyStr(r.a.idempotency_key)
                                       THEN "ct_idem_set" ELSE "invalidate")]
    /\ UNCHANGED <<role, comments, next_comment_id, cache, cache_up, jobs, last, nreq, worker, probe, clock, limiter, auth>>

\* task = await crud_task.create_task(db, task_in, owner_id=current_user.id)
create_task_insert(s) ==
    /\ At(s, "ct_insert")
    /\ LET r == req[s]
           row == [id |-> next_task_id, title |-> r.a.title, description |-> None,
                   status |-> r.a.status, owner_id |-> r.uid,
                   created_at |-> Datetime(next_task_id), task_metadata |-> None]
           r2 == [Did(r, "db_commit") EXCEPT
                     !.l.task = row, !.committed = TRUE, !.status = 201,
                     !.body = BodyTask(TaskRead_from_orm(row)),
                     !.l.plan = create_task_invalidation(r)]
       IN  /\ tasks' = (next_task_id :> row) @@ tasks
           /\ next_task_id' = next_task_id + 1
           /\ owners' = (next_task_id :> r.uid) @@ owners
           /\ tokens' = (next_task_id :> r.a.idempotency_key) @@ tokens
           /\ req' = [req EXCEPT ![s] =
                         Goto(r2, IF TruthyStr(r.a.idempotency_key)
                                  THEN "ct_idem_set" ELSE "invalidate")]
    /\ UNCHANGED <<role, comments, next_comment_id, cache, cache_up, jobs, last, nreq, worker, probe, clock, limiter, auth>>

\* Variant of create_task_record that never stores the response under the key.
create_task_record_dropped(s) ==
    /\ At(s, "ct_idem_set")
    /\ req' = [req EXCEPT ![s] = Goto(req[s], "invalidate")]
    /\ UNCHANGED <<store, cache, cache_up, jobs, last, nreq, tokens, worker, probe, clock, limiter, auth>>

\* await cache.set_idempotency(idempotency_key, TaskRead.from_orm(task).dict())
create_task_record(s) ==
    /\ At(s, "ct_idem_set")
    /\ LET r == req[s]
       IN  /\ cache' = cache_set(cache, cache_up,
                                 idempotency_cache_key(Val(r.a.idempotency_key)),
                                 JsonTask(TaskRead_from_orm(r.l.task)), IdempotencyTTL)
           /\ req' = [req EXCEPT ![s] = Goto(Did(r, "cache_set"), "invalidate")]
    /\ UNCHANGED <<store, cache_up, jobs, last, nreq, tokens, worker, probe, clock, limiter, auth>>

\* --------------------------------------------------- routes/task.py get_tasks
TaskFilters(r) ==
    [status |-> r.a.status,
     owner_id |-> IF IsAdmin(r) THEN r.a.owner_id ELSE None,
     title_contains |-> None, created_after |-> r.a.created_after,
     created_before |-> r.a.created_before]

\* schemas/pagination.py TaskFilters.validate_date, on both fields: whether
\* the model is constructed, rather than pydantic's ValidationError raised.
validate_date(value) ==
    TruthyStr(value) => fromisoformat(ReplaceZ(Val(value))) # None

TaskFiltersValid(r) == validate_date(r.a.created_after) /\ validate_date(r.a.created_before)

get_tasks_cache_key(r) ==
    make_task_cache_key(r.uid,
        << <<"page", Some(ToString(r.a.page))>>,
           <<"page_size", Some(ToString(r.a.page_size))>>,
           <<"status", r.a.status>>,
           <<"owner_id", PyStrOptInt(TaskFilters(r).owner_id)>>,
           <<"title_contains", None>>,
           <<"created_after", r.a.created_after>>,
           <<"created_before", r.a.created_before>>,
           <<"is_admin", Some(PyStrBool(IsAdmin(r)))>> >>)

StartGetTasks(s, uid, q) == Admit(s, "get_tasks", uid, q, "gl_cache_get")

\* filters = TaskFilters(...): a ValidationError raised here is no
\* HTTPException and reaches main.py general_exception_handler, status 500;
\* otherwise cached_result = await cache.get(cache_key)
get_tasks_cached(s) ==
    /\ At(s, "gl_cache_get")
    /\ LET r == Did(req[s], "cache_get")
           cached == cache_get(cache, cache_up, get_tasks_cache_key(r))
       IN  req' = [req EXCEPT ![s] =
                     IF ~TaskFiltersValid(req[s]) THEN Finish(req[s], 500, None)
                     ELSE IF cached # None
                     THEN Finish([r EXCEPT !.from_cache = TRUE], 200, BodyPage(Val(cached)))
                     ELSE Goto(r, "gl_query")]
    /\ UNCHANGED <<store, cache, cache_up, jobs, last, nreq, tokens, worker, probe, clock, limiter, auth>>

\* tasks, total = await crud_task.get_tasks_with_pagination(...) and
\* response = PaginatedResponse.create(items=[TaskRead.from_orm(task) ...], ...)
get_tasks_response(ts, r) ==
    LET res == get_tasks_with_pagination(ts, r.a.page, r.a.page_size,
                                         TaskFilters(r), r.uid, IsAdmin(r))
        items == [i \in DOMAIN res[1] |-> TaskRead_from_orm(res[1][i])]
    IN  PaginatedResponse_create(items, res[2], r.a.page, r.a.page_size)

\* crud raises HTTPException(400, "Invalid created_... date format") while
\* it builds the conditions, before it executes a query
get_tasks_query(s) ==
    /\ At(s, "gl_query")
    /\ LET r == req[s]
       IN  req' = [req EXCEPT ![s] =
                     IF InvalidDateFilter(TaskFilters(r)) # None THEN Finish(r, 400, None)
                     ELSE Goto([Did(r, "db_read") EXCEPT
                                   !.l.resp = Some(get_tasks_response(tasks, r))],
                               "gl_cache_set")]
    /\ UNCHANGED <<store, cache, cache_up, jobs, last, nreq, tokens, worker, probe, clock, limiter, auth>>

\* await cache.set(cache_key, response.dict(), expire_seconds=300)
get_tasks_store(s) ==
    /\ At(s, "gl_cache_set")
    /\ LET r == req[s]
       IN  /\ cache' = cache_set(cache, cache_up, get_tasks_cache_key(r),
                                 JsonPage(Val(r.l.resp)), 300)
           /\ req' = [req EXCEPT ![s] =
                         Finish(Did(r, "cache_set"), 200, BodyPage(Val(r.l.resp)))]
    /\ UNCHANGED <<store, cache_up, jobs, last, nreq, tokens, worker, probe, clock, limiter, auth>>

\* ---------------------------------------------------- routes/task.py get_task
StartGetTask(s, uid, task_id) ==
    Admit(s, "get_task", uid, [task_id |-> task_id], "gt_cache_get")

\* cached_task = await cache.get(cache_key), then the ownership check
get_task_cached(s) ==
    /\ At(s, "gt_cache_get")
    /\ LET r == Did(req[s], "cache_get")
           cached == cache_get(cache, cache_up, make_task_detail_cache_key(r.a.task_id))
       IN  req' = [req EXCEPT ![s] =
                     IF cached # None
                     THEN IF ~IsAdmin(r) /\ Val(cached).owner_id # r.uid
                          THEN Finish(r, 403, None)
                          ELSE Finish([r EXCEPT !.from_cache = TRUE], 200,
                                      BodyTask(TaskRead_parse(Val(cached))))
                     ELSE Goto(r, "gt_query")]
    /\ UNCHANGED <<store, cache, cache_up, jobs, last, nreq, tokens, worker, probe, clock, limiter, auth>>

\* task = await crud_task.get_task_by_id(db, task_id), 404 / 403
get_task_query(s) ==
    /\ At(s, "gt_query")
    /\ LET r == Did(req[s], "db_read")
           task == get_task_by_id(tasks, r.a.task_id)
       IN  req' = [req EXCEPT ![s] =
                     IF task = None THEN Finish(r, 404, None)
                     ELSE IF ~IsAdmin(r) /\ Val(task).owner_id # r.uid
                          THEN Finish(r, 403, None)
                          ELSE Goto([r EXCEPT !.l.task = TaskRead_from_orm(Val(task))],
                                    "gt_cache_set")]
    /\ UNCHANGED <<store, cache, cache_up, jobs, last, nreq, tokens, worker, probe, clock, limiter, auth>>

\* Variant of get_task_store that caches the row the store holds at the time
\* of the write instead of the row the request read.
get_task_store_reread(s) ==
    /\ At(s, "gt_cache_set")
    /\ LET r == req[s]
           now == IF r.a.task_id \in DOMAIN tasks
                  THEN TaskRead_from_orm(tasks[r.a.task_id]) ELSE r.l.task
       IN  /\ cache' = cache_set(cache, cache_up, make_task_detail_cache_key(r.a.task_id),
                                 JsonTask(now), 600)
           /\ req' = [req EXCEPT ![s] = Finish(Did(r, "cache_set"), 200, BodyTask(now))]
    /\ UNCHANGED <<store, cache_up, jobs, last, nreq, tokens, worker, probe, clock, limiter, auth>>

\* await cache.set(cache_key, task_data.dict(), expire_seconds=600)
get_task_store(s) ==
    /\ At(s, "gt_cache_set")
    /\ LET r == req[s]
       IN  /\ cache' = cache_set(cache, cache_up, make_task_detail_cache_key(r.a.task_id),
                                 JsonTask(r.l.task), 600)
           /\ req' = [req EXCEPT ![s] = Finish(Did(r, "cache_set"), 200, BodyTask(r.l.task))]
    /\ UNCHANGED <<store, cache_up, jobs, last, nreq, tokens, worker, probe, clock, limiter, auth>>

\* ------------------------------------------------- routes/task.py update_task
\* Variant of update_task_invalidation that leaves the detail key in place.
update_task_invalidation_lists_only(r) ==
    << <<"delete_pattern", make_user_tasks_cache_key(r.uid)>> >>
    \o (IF IsAdmin(r) THEN << <<"delete_pattern", AllUsersTasksPattern>> >> ELSE <<>>)

\* Variant of update_task_invalidation without the admin's all-users pattern.
update_task_invalidation_actor_only(r) ==
    << <<"delete", make_task_detail_cache_key(r.a.task_id)>>,
       <<"delete_pattern", make_user_tasks_cache_key(r.uid)>> >>

update_task_invalidation(r) ==
    << <<"delete", make_task_detail_cache_key(r.a.task_id)>>,
       <<"delete_pattern", make_user_tasks_cache_key(r.uid)>> >>
    \o (IF IsAdmin(r) THEN << <<"delete_pattern", AllUsersTasksPattern>> >> ELSE <<>>)

\* update_data = task_update.dict(exclude_unset=True)
UpdateIsEmpty(updates) == updates.title = None /\ updates.status = None

StartUpdateTask(s, uid, task_id, updates) ==
    Admit(s, "update_task", uid, [task_id |-> task_id, updates |-> updates], "ut_load")

\* Variant of update_task_load that invalidates first and never commits.
update_task_load_invalidate_first(s) ==
    /\ At(s, "ut_load")
    /\ LET r == Did(req[s], "db_read")
           task == get_task_by_id(tasks, r.a.task_id)
       IN  req' = [req EXCEPT ![s] =
                     IF task = None THEN Finish(r, 404, None)
                     ELSE Goto([r EXCEPT !.status = 200,
                                         !.l.plan = update_task_invalidation(r)],
                               "invalidate")]
    /\ UNCHANGED <<store, cache, cache_up, jobs, last, nreq, tokens, worker, probe, clock, limiter, auth>>

\* task = await crud_task.get_task_by_id(db, task_id), 404 / 403 / 400
update_task_load(s) ==
    /\ At(s, "ut_load")
    /\ LET r == Did(req[s], "db_read")
           task == get_task_by_id(tasks, r.a.task_id)
       IN  req' = [req EXCEPT ![s] =
                     IF task = None THEN Finish(r, 404, None)
                     ELSE IF ~IsAdmin(r) /\ Val(task).owner_id # r.uid
                          THEN Finish(r, 403, None)
                          ELSE IF UpdateIsEmpty(r.a.updates) THEN Finish(r, 400, None)
                               ELSE Goto(r, "ut_update")]
    /\ UNCHANGED <<store, cache, cache_up, jobs, last, nreq, tokens, worker, probe, clock, limiter, auth>>

\* updated_task = await crud_task.update_task(db, task_id, update_data)
update_task_commit(s) ==
    /\ At(s, "ut_update")
    /\ LET r == [Did(req[s], "db_commit") EXCEPT !.committed = TRUE]
       IN  IF r.a.task_id \in DOMAIN tasks
           THEN LET row == ApplyTaskUpdates(tasks[r.a.task_id], r.a.updates)
                IN  /\ tasks' = [tasks EXCEPT ![r.a.task_id] = row]
                    /\ req' = [req EXCEPT ![s] =
                                 Goto([r EXCEPT !.status = 200,
                                                !.body = BodyTask(TaskRead_from_orm(row)),
                                                !.l.plan = update_task_invalidation(r)],
                                      "invalidate")]
           ELSE /\ tasks' = tasks
                /\ req' = [req EXCEPT ![s] = Finish(r, 404, None)]
    /\ UNCHANGED <<role, next_task_id, owners, comments, next_comment_id, cache, cache_up,
                   jobs, last, nreq, tokens, worker, probe, clock, limiter, auth>>

\* ------------------------------------------------- routes/task.py delete_task
delete_task_invalidation(r) ==
    << <<"delete", make_task_detail_cache_key(r.a.task_id)>>,
       <<"delete_pattern", make_user_tasks_cache_key(r.uid)>> >>

StartDeleteTask(s, uid, task_id) ==
    Admit(s, "delete_task", uid, [task_id |-> task_id], "dt_load")

\* Variant of delete_task_load without the ownership check.
delete_task_load_any_owner(s) ==
    /\ At(s, "dt_load")
    /\ LET r == Did(req[s], "db_read")
           task == get_task_by_id(tasks, r.a.task_id)
       IN  req' = [req EXCEPT ![s] =
                     IF task = None THEN Finish(r, 404, None)
                     ELSE Goto([r EXCEPT !.l.task = Val(task)], "dt_delete")]
    /\ UNCHANGED <<store, cache, cache_up, jobs, last, nreq, tokens, worker, probe, clock, limiter, auth>>

\* task = await crud_task.get_task_by_id(db, task_id), 404 / 403
delete_task_load(s) ==
    /\ At(s, "dt_load")
    /\ LET r == Did(req[s], "db_read")
           task == get_task_by_id(tasks, r.a.task_id)
       IN  req' = [req EXCEPT ![s] =
                     IF task = None THEN Finish(r, 404, None)
                     ELSE IF ~IsAdmin(r) /\ Val(task).owner_id # r.uid
                          THEN Finish(r, 403, None)
                          ELSE Goto([r EXCEPT !.l.task = Val(task)], "dt_delete")]
    /\ UNCHANGED <<store, cache, cache_up, jobs, last, nreq, tokens, worker, probe, clock, limiter, auth>>

\* await crud_task.delete_task(db, task).  The ORM first detaches the task's
\* comments (comments.task_id := NULL); the column is NOT NULL, so a task
\* that has comments cannot be deleted: the flush fails and the request ends
\* in the database error handler.
delete_task_commit(s) ==
    /\ At(s, "dt_delete")
    /\ LET r == req[s]
           has_comments == \E c \in Rows(comments) : c.task_id = r.a.task_id
       IN  IF has_comments
           THEN /\ tasks' = tasks
                /\ req' = [req EXCEPT ![s] = Finish(Did(r, "db_error"), 500, None)]
           ELSE /\ tasks' = [t \in DOMAIN tasks \ {r.a.task_id} |-> tasks[t]]
                /\ req' = [req EXCEPT ![s] =
                             Goto([Did(r, "db_commit") EXCEPT
                                      !.committed = TRUE, !.status = 204,
                                      !.l.plan = delete_task_invalidation(r)],
                                  "invalidate")]
    /\ UNCHANGED <<role, next_task_id, owners, comments, next_comment_id, cache, cache_up,
                   jobs, last, nreq, tokens, worker, probe, clock, limiter, auth>>

\* ---------------------------------------------- routes/task.py get_task_stats
StartGetTaskStats(s, uid) == Admit(s, "get_task_stats", uid, [x |-> 0], "gs_cache_get")

\* cached_stats = await cache.get(cache_key)
get_task_stats_cached(s) ==
    /\ At(s, "gs_cache_get")
    /\ LET r == Did(req[s], "cache_get")
           cached == cache_get(cache, cache_up, task_stats_cache_key(r.uid))
       IN  req' = [req EXCEPT ![s] =
                     IF cached # None
                     THEN Finish([r EXCEPT !.from_cache = TRUE], 200, Val(cached))
                     ELSE Goto(r, "gs_query")]
    /\ UNCHANGED <<store, cache, cache_up, jobs, last, nreq, tokens, worker, probe, clock, limiter, auth>>

\* stats = await crud_task.get_task_statistics(db, current_user.id)
get_task_stats_query(s) ==
    /\ At(s, "gs_query")
    /\ LET r == Did(req[s], "db_read")
       IN  req' = [req EXCEPT ![s] =
                     Goto([r EXCEPT !.l.resp = Some(get_task_statistics(tasks, r.uid))],
                          "gs_cache_set")]
    /\ UNCHANGED <<store, cache, cache_up, jobs, last, nreq, tokens, worker, probe, clock, limiter, auth>>

\* await cache.set(cache_key, stats, expire_seconds=120)
get_task_stats_store(s) ==
    /\ At(s, "gs_cache_set")
    /\ LET r == req[s]
       IN  /\ cache' = cache_set(cache, cache_up, task_stats_cache_key(r.uid),
                                 Val(r.l.resp), 120)
           /\ req' = [req EXCEPT ![s] = Finish(Did(r, "cache_set"), 200, Val(r.l.resp))]
    /\ UNCHANGED <<store, cache_up, jobs, last, nreq, tokens, worker, probe, clock, limiter, auth>>

\* ------------------------------------------------------- routes/comment.py
\* Variant of comment_invalidation that leaves the parent task's detail key.
comment_invalidation_lists_only(task_id) ==
    << <<"delete_pattern", CommentsPattern>> >>

comment_invalidation(task_id) ==
    << <<"delete_pattern", CommentsPattern>>,
       <<"delete", <<"task", ToString(task_id)>> >> >>

BodyComment(c) == [c EXCEPT !.created_at = IsoFormat(ParseDatetime(@))]
JsonComment(c) == [c EXCEPT !.created_at = PyStrDatetime(@)]
JsonCommentPage(p) == [p EXCEPT !.items = [i \in DOMAIN @ |-> JsonComment(@[i])]]
BodyCommentPage(p) == [p EXCEPT !.items = [i \in DOMAIN @ |-> BodyComment(@[i])]]

StartCreateComment(s, uid, task_id, content) ==
    /\ next_comment_id + InFlight("create_comment") <= MaxComments
    /\ Admit(s, "create_comment", uid, [task_id |-> task_id, content |-> content], "cc_load")

\* task = await crud_task.get_task_by_id(db, comment_in.task_id), 404 / 403
create_comment_load(s) ==
    /\ At(s, "cc_load")
    /\ LET r == Did(req[s], "db_read")
           task == get_task_by_id(tasks, r.a.task_id)
       IN  req' = [req EXCEPT ![s] =
                     IF task = None THEN Finish(r, 404, None)
                     ELSE IF ~IsAdmin(r) /\ Val(task).owner_id # r.uid
                          THEN Finish(r, 403, None)
                          ELSE Goto(r, "cc_insert")]
    /\ UNCHANGED <<store, cache, cache_up, jobs, last, nreq, tokens, worker, probe, clock, limiter, auth>>

\* comment = await crud_comment.create_comment(db, comment_in, user_id=...)
\* (the insert violates the foreign key if the task is gone by now)
create_comment_insert(s) ==
    /\ At(s, "cc_insert")
    /\ LET r == req[s]
           row == [id |-> next_comment_id, content |-> r.a.content,
                   task_id |-> r.a.task_id, user_id |-> r.uid,
                   created_at |-> Datetime(next_comment_id)]
       IN  IF r.a.task_id \in DOMAIN tasks
           THEN /\ comments' = (next_comment_id :> row) @@ comments
                /\ next_comment_id' = next_comment_id + 1
                /\ req' = [req EXCEPT ![s] =
                             Goto([Did(r, "db_commit") EXCEPT
                                      !.committed = TRUE, !.status = 201,
                                      !.body = BodyComment(CommentRead_from_orm(row)),
                                      !.l.plan = comment_invalidation(r.a.task_id)],
                                  "invalidate")]
           ELSE /\ UNCHANGED <<comments, next_comment_id, tokens, worker, probe, clock, limiter, auth>>
                /\ req' = [req EXCEPT ![s] = Finish(Did(r, "db_error"), 500, None)]
    /\ UNCHANGED <<role, tasks, next_task_id, owners, cache, cache_up, jobs, last, nreq, tokens, worker, probe, clock, limiter, auth>>

CommentFilters(r) ==
    [task_id |-> r.a.task_id,
     user_id |-> IF IsAdmin(r) THEN r.a.user_id ELSE None,
     content_contains |-> None]

get_comments_cache_key(r) ==
    comments_cache_key(r.uid, r.a.page, r.a.page_size, CommentFilters(r))

StartGetComments(s, uid, q) == Admit(s, "get_comments", uid, q, "gc_cache_get")

\* cached_result = await cache.get(cache_key)
get_comments_cached(s) ==
    /\ At(s, "gc_cache_get")
    /\ LET r == Did(req[s], "cache_get")
           cached == cache_get(cache, cache_up, get_comments_cache_key(r))
       IN  req' = [req EXCEPT ![s] =
                     IF cached # None
                     THEN Finish([r EXCEPT !.from_cache = TRUE], 200,
                                 BodyCommentPage(Val(cached)))
                     ELSE Goto(r, "gc_query")]
    /\ UNCHANGED <<store, cache, cache_up, jobs, last, nreq, tokens, worker, probe, clock, limiter, auth>>

\* the admin query or the user-related query
get_comments_query(s) ==
    /\ At(s, "gc_query")
    /\ LET r == req[s]
           res == IF IsAdmin(r)
                  THEN get_comments_with_pagination(comments, r.a.page, r.a.page_size,
                                                    CommentFilters(r))
                  ELSE get_user_related_comments_with_pagination(
                           comments, tasks, r.uid, r.a.page, r.a.page_size,
                           CommentFilters(r))
           items == [i \in DOMAIN res[1] |-> CommentRead_from_orm(res[1][i])]
           response == PaginatedResponse_create(items, res[2], r.a.page, r.a.page_size)
       IN  req' = [req EXCEPT ![s] =
                     Goto([Did(r, "db_read") EXCEPT !.l.resp = Some(response)],
                          "gc_cache_set")]
    /\ UNCHANGED <<store, cache, cache_up, jobs, last, nreq, tokens, worker, probe, clock, limiter, auth>>

\* await cache.set(cache_key, response.dict(), expire_seconds=180)
get_comments_store(s) ==
    /\ At(s, "gc_cache_set")
    /\ LET r == req[s]
       IN  /\ cache' = cache_set(cache, cache_up, get_comments_cache_key(r),
                                 JsonCommentPage(Val(r.l.resp)), 180)
           /\ req' = [req EXCEPT ![s] =
                         Finish(Did(r, "cache_set"), 200, BodyCommentPage(Val(r.l.resp)))]
    /\ UNCHANGED <<store, cache_up, jobs, last, nreq, tokens, worker, probe, clock, limiter, auth>>

StartGetComment(s, uid, comment_id) ==
    Admit(s, "get_comment", uid, [comment_id |-> comment_id], "gm_load")

\* comment = await crud_comment.get_comment_by_id(db, comment_id), 404
get_comment_load(s) ==
    /\ At(s, "gm_load")
    /\ LET r == Did(req[s], "db_read")
           comment == get_comment_by_id(comments, r.a.comment_id)
       IN  req' = [req EXCEPT ![s] =
                     IF comment = None THEN Finish(r, 404, None)
                     ELSE IF ~IsAdmin(r) /\ Val(comment).user_id # r.uid
                          THEN Goto([r EXCEPT !.l.comment = Val(comment)], "gm_task")
                          ELSE Finish(r, 200, BodyComment(CommentRead_from_orm(Val(comment))))]
    /\ UNCHANGED <<store, cache, cache_up, jobs, last, nreq, tokens, worker, probe, clock, limiter, auth>>

\* task = await crud_task.get_task_by_id(db, comment.task_id), 403
get_comment_task(s) ==
    /\ At(s, "gm_task")
    /\ LET r == Did(req[s], "db_read")
           task == get_task_by_id(tasks, r.l.comment.task_id)
       IN  req' = [req EXCEPT ![s] =
                     IF task = None \/ Val(task).owner_id # r.uid
                     THEN Finish(r, 403, None)
                     ELSE Finish(r, 200, BodyComment(CommentRead_from_orm(r.l.comment)))]
    /\ UNCHANGED <<store, cache, cache_up, jobs, last, nreq, tokens, worker, probe, clock, limiter, auth>>

StartUpdateComment(s, uid, comment_id, content) ==
    Admit(s, "update_comment", uid, [comment_id |-> comment_id, content |-> content],
          "uc_load")

\* the load and the author-or-admin check shared by update and delete
CommentLoad(s, pc, next) ==
    /\ At(s, pc)
    /\ LET r == Did(req[s], "db_read")
           comment == get_comment_by_id(comments, r.a.comment_id)
       IN  req' = [req EXCEPT ![s] =
                     IF comment = None THEN Finish(r, 404, None)
                     ELSE IF ~IsAdmin(r) /\ Val(comment).user_id # r.uid
                          THEN Finish(r, 403, None)
                          ELSE Goto([r EXCEPT !.l.comment = Val(comment)], next)]
    /\ UNCHANGED <<store, cache, cache_up, jobs, last, nreq, tokens, worker, probe, clock, limiter, auth>>

update_comment_load(s) == CommentLoad(s, "uc_load", "uc_update")

\* updated_comment = await crud_comment.update_comment(db, comment, {"content": content})
update_comment_commit(s) ==
    /\ At(s, "uc_update")
    /\ LET r == req[s]
           cid == r.a.comment_id
       IN  IF cid \in DOMAIN comments
           THEN LET row == [comments[cid] EXCEPT !.content = r.a.content]
                IN  /\ comments' = [comments EXCEPT ![cid] = row]
                    /\ req' = [req EXCEPT ![s] =
                                 Goto([Did(r, "db_commit") EXCEPT
                                          !.committed = TRUE, !.status = 200,
                                          !.body = BodyComment(CommentRead_from_orm(row)),
                                          !.l.plan = comment_invalidation(row.task_id)],
                                      "invalidate")]
           ELSE /\ comments' = comments
                /\ req' = [req EXCEPT ![s] = Finish(Did(r, "db_error"), 500, None)]
    /\ UNCHANGED <<role, tasks, next_task_id, owners, next_comment_id, cache, cache_up,
                   jobs, last, nreq, tokens, worker, probe, clock, limiter, auth>>

StartDeleteComment(s, uid, comment_id) ==
    Admit(s, "delete_comment", uid, [comment_id |-> comment_id], "dc_load")

delete_comment_load(s) == CommentLoad(s, "dc_load", "dc_delete")

\* await crud_comment.delete_comment(db, comment)
delete_comment_commit(s) ==
    /\ At(s, "dc_delete")
    /\ LET r == req[s]
           cid == r.a.comment_id
       IN  IF cid \in DOMAIN comments
           THEN /\ comments' = [c \in DOMAIN comments \ {cid} |-> comments[c]]
                /\ req' = [req EXCEPT ![s] =
                             Goto([Did(r, "db_commit") EXCEPT
                                      !.committed = TRUE, !.status = 204,
                                      !.l.plan = comment_invalidation(r.l.comment.task_id)],
                                  "invalidate")]
           ELSE /\ comments' = comments
                /\ req' = [req EXCEPT ![s] = Finish(Did(r, "db_error"), 500, None)]
    /\ UNCHANGED <<role, tasks, next_task_id, owners, next_comment_id, cache, cache_up,
                   jobs, last, nreq, tokens, worker, probe, clock, limiter, auth>>

\* ---------------------------------------------- routes/user.py update_user
StartUpdateUser(s, uid, user_id, new_role) ==
    Admit(s, "update_user", uid, [user_id |-> user_id, role |-> new_role], "uu_load")

\* the admin check, then db_user = await crud_user.get_user_by_id(db, user_id)
update_user_load(s) ==
    /\ At(s, "uu_load")
    /\ LET r == req[s]
       IN  req' = [req EXCEPT ![s] =
                     IF ~IsAdmin(r) THEN Finish(r, 403, None)
                     ELSE IF r.a.user_id \notin DOMAIN role
                          THEN Finish(Did(r, "db_read"), 404, None)
                          ELSE Goto(Did(r, "db_read"), "uu_update")]
    /\ UNCHANGED <<store, cache, cache_up, jobs, last, nreq, tokens, worker, probe, clock, limiter, auth>>

\* updated_user = await crud_user.update_user(db, db_user, update_data)
update_user_commit(s) ==
    /\ At(s, "uu_update")
    /\ LET r == req[s]
       IN  /\ role' = [role EXCEPT ![r.a.user_id] = r.a.role]
           /\ req' = [req EXCEPT ![s] =
                         Finish([Did(r, "db_commit") EXCEPT !.committed = TRUE], 200,
                                Some([id |-> r.a.user_id, role |-> r.a.role]))]
    /\ UNCHANGED <<tasks, next_task_id, owners, comments, next_comment_id, cache, cache_up,
                   jobs, last, nreq, tokens, worker, probe, clock, limiter, auth>>

\* ------------------------------------------------------------ the system
\* The service starts on a database that is empty or already holds a task
\* (of either user, its enrichment job long gone) and possibly a comment on
\* it (of either user), with a cold cache.
InitialTasks ==
    {<<>>} \cup
    {<<[id |-> 1, title |-> "t", description |-> None, status |-> "pending",
        owner_id |-> u, created_at |-> Datetime(1), task_metadata |-> None]>> :
       u \in Users}

InitialComments(ts) ==
    {<<>>} \cup
    {<<[id |-> 1, content |-> "c", task_id |-> t, user_id |-> u,
        created_at |-> Datetime(1)]>> : t \in DOMAIN ts, u \in Users}

\* The worker process between two jobs.
NoJob == [pc |-> "idle"]
NoProbe == [pc |-> "none"]

\* slowapi's storage before the first hit; no login or /users/me answered yet.
NoHits == [storage |-> <<>>, created |-> [u \in Users |-> 0], last |-> [endpoint |-> "none"]]
NoAnswer == [kind |-> "none"]

Init ==
    /\ role = [u \in Users |-> IF u = 1 THEN "admin" ELSE "user"]
    /\ tasks \in InitialTasks
    /\ next_task_id = Len(tasks) + 1
    /\ owners = [t \in DOMAIN tasks |-> tasks[t].owner_id]
    /\ comments \in InitialComments(tasks)
    /\ next_comment_id = Len(comments) + 1
    /\ cache = <<>>
    /\ cache_up = TRUE
    /\ jobs = <<>>
    /\ req = [s \in Slots |-> Idle]
    /\ last = NoResponse
    /\ nreq = 0
    /\ tokens = [t \in DOMAIN tasks |-> None]
    /\ worker = NoJob
    /\ probe = NoProbe
    /\ clock = [now |-> 0, ticks |-> 0]
    /\ limiter = NoHits
    /\ auth = NoAnswer

TaskIds == 1..MaxTasks
CommentIds == 1..MaxComments

Start(s) ==
    \/ \E u \in Users, k \in IdempotencyKeys :
           StartCreateTask(s, u, "t", "pending", k)
    \/ \E u \in Users, q \in TaskListQueries : StartGetTasks(s, u, q)
    \/ \E u \in Users, t \in TaskIds : StartGetTask(s, u, t)
    \/ \E u \in Users, t \in TaskIds, upd \in TaskUpdates : StartUpdateTask(s, u, t, upd)
    \/ \E u \in Users, t \in TaskIds : StartDeleteTask(s, u, t)
    \/ \E u \in Users : StartGetTaskStats(s, u)
    \/ \E u \in Users, t \in TaskIds : StartCreateComment(s, u, t, "c")
    \/ \E u \in Users, q \in CommentListQueries : StartGetComments(s, u, q)
    \/ \E u \in Users, c \in CommentIds : StartGetComment(s, u, c)
    \/ \E u \in Users, c \in CommentIds : StartUpdateComment(s, u, c, "d")
    \/ \E u \in Users, c \in CommentIds : StartDeleteComment(s, u, c)
    \/ \E u \in Users, v \in Users, ro \in Roles : StartUpdateUser(s, u, v, ro)

Step(s) ==
    \/ create_task_lookup(s) \/ create_task_insert(s) \/ create_task_record(s)
    \/ get_tasks_cached(s) \/ get_tasks_query(s) \/ get_tasks_store(s)
    \/ get_task_cached(s) \/ get_task_query(s) \/ get_task_store(s)
    \/ update_task_load(s) \/ update_task_commit(s)
    \/ delete_task_load(s) \/ delete_task_commit(s)
    \/ get_task_stats_cached(s) \/ get_task_stats_query(s) \/ get_task_stats_store(s)
    \/ create_comment_load(s) \/ create_comment_insert(s)
    \/ get_comments_cached(s) \/ get_comments_query(s) \/ get_comments_store(s)
    \/ get_comment_load(s) \/ get_comment_task(s)
    \/ update_comment_load(s) \/ update_comment_commit(s)
    \/ delete_comment_load(s) \/ delete_comment_commit(s)
    \/ update_user_load(s) \/ update_user_commit(s)
    \/ InvalidateDelete(s) \/ InvalidateKeys(s) \/ InvalidateDel(s)
    \/ Return(s)

\* One request at a time: requests run in slot 1 alone, so a request starts
\* after the previous one has returned.
Next == Start(1) \/ Step(1)

Spec == Init /\ [][Next]_vars

\* ---------------------------------------------------- concurrent requests
\* The handler pool: requests of several clients are in flight at once and
\* interleave at their awaits.  Slots fill in order.
StartConcurrent(s) ==
    /\ \A s2 \in Slots : s2 < s => Running(s2)
    /\ \/ \E u \in Users, k \in IdempotencyKeys :
              StartCreateTask(s, u, "t", "pending", k)
       \/ \E u \in Users, t \in TaskIds : StartGetTask(s, u, t)
       \/ \E u \in Users, t \in TaskIds, upd \in TaskUpdates :
              StartUpdateTask(s, u, t, upd)

StepConcurrent(s) ==
    \/ create_task_lookup(s) \/ create_task_insert(s) \/ create_task_record(s)
    \/ get_task_cached(s) \/ get_task_query(s) \/ get_task_store(s)
    \/ update_task_load(s) \/ update_task_commit(s)
    \/ InvalidateDelete(s) \/ InvalidateKeys(s)
    \/ Return(s)

NextConcurrent == \E s \in Slots : StartConcurrent(s) \/ StepConcurrent(s)

\* Comments play no part in these handlers: the comments table is empty.
InitConcurrent == Init /\ comments = <<>>

SpecConcurrent == InitConcurrent /\ [][NextConcurrent]_vars

\* ------------------------------------------------------- client retries
\* The client gives up on a request that is waiting on the store or on the
\* cache (timeout, disconnect): the handler is cancelled at that await.
\* What it has committed or cached so far stays.
Abandon(s) ==
    /\ Running(s) /\ req[s].pc # "ret"
    /\ req' = [req EXCEPT ![s] = Idle]
    /\ UNCHANGED <<store, cache, cache_up, jobs, last, nreq, tokens, worker, probe, clock, limiter, auth>>

\* create_task attempts of one client at a time, each run to its response or
\* abandoned and then retried.
NextRetry ==
    \/ \E u \in Users, k \in IdempotencyKeys : StartCreateTask(1, u, "t", "pending", k)
    \/ create_task_lookup(1) \/ create_task_insert(1) \/ create_task_record(1)
    \/ InvalidateKeys(1)
    \/ Return(1)
    \/ Abandon(1)

SpecRetry == InitConcurrent /\ [][NextRetry]_vars

\* --------------------------------------------------------- Redis outage
\* The Redis server becomes unreachable and reachable again at any moment.
\* Its contents survive the outage.
RedisFails ==
    /\ cache_up
    /\ cache_up' = FALSE
    /\ UNCHANGED <<store, cache, jobs, req, last, nreq, tokens, worker, probe, clock, limiter, auth>>

RedisRecovers ==
    /\ ~cache_up
    /\ cache_up' = TRUE
    /\ UNCHANGED <<store, cache, jobs, req, last, nreq, tokens, worker, probe, clock, limiter, auth>>

\* Task requests, one at a time, while Redis comes and goes.
NextOutage ==
    \/ \E u \in Users, k \in IdempotencyKeys : StartCreateTask(1, u, "t", "pending", k)
    \/ \E u \in Users, t \in TaskIds : StartGetTask(1, u, t)
    \/ \E u \in Users, t \in TaskIds, upd \in TaskUpdates : StartUpdateTask(1, u, t, upd)
    \/ \E u \in Users, t \in TaskIds : StartDeleteTask(1, u, t)
    \/ create_task_lookup(1) \/ create_task_insert(1) \/ create_task_record(1)
    \/ get_task_cached(1) \/ get_task_query(1) \/ get_task_store(1)
    \/ update_task_load(1) \/ update_task_commit(1)
    \/ delete_task_load(1) \/ delete_task_commit(1)
    \/ InvalidateDelete(1) \/ InvalidateKeys(1)
    \/ Return(1)
    \/ RedisFails \/ RedisRecovers

SpecOutage == InitConcurrent /\ [][NextOutage]_vars

\* ------------------------------------------------- the enrichment worker
\* app/worker.py.  The Celery worker takes one job at a time from the broker
\* and runs _fetch_task_metadata_async under tenacity's retry decorator.
\* worker is the run in progress: the attempt it is in, the result of every
\* fetch so far, the seconds slept between attempts, the task row as it was
\* when the run began, the document fetched and the task object loaded in
\* the current attempt, and the run's outcome once it is over ("ok" or the
\* name of the exception that left the decorated function).

\* @retry(stop=stop_after_attempt(3), wait=wait_exponential(multiplier=1,
\* min=2, max=10), retry=retry_if_exception_type((httpx.RequestError,
\* httpx.HTTPStatusError))); reraise is not given and defaults to False.
StopAfterAttempt == 3
WaitMultiplier == 1
WaitMin == 2
WaitMax == 10
reraise == FALSE

Min(a, b) == IF a <= b THEN a ELSE b
Max(a, b) == IF a >= b THEN a ELSE b

stop_after_attempt(attempt_number) == attempt_number >= StopAfterAttempt

\* tenacity wait_exponential.__call__ with exp_base 2:
\*   exp = exp_base ** (attempt_number - 1); result = multiplier * exp
\*   return max(max(0, min), min(result, max))
wait_exponential(attempt_number) ==
    Max(Max(0, WaitMin), Min(WaitMultiplier * 2 ^ (attempt_number - 1), WaitMax))

retry_if_exception_type(exc) == exc \in {"RequestError", "HTTPStatusError"}

\* What one attempt's client.get / raise_for_status / resp.json() can end in.
FetchResults == {"ok", "RequestError", "HTTPStatusError", "JSONDecodeError"}

\* The documents the external source may serve for a task id: what
\* /todos/{task_id} returns can change from one fetch to the next.
ExternalDocuments(task_id) ==
    {[id |-> task_id, completed |-> done] : done \in BOOLEAN}

RowOf(task_id) == IF task_id \in DOMAIN tasks THEN Some(tasks[task_id]) ELSE None

\* The run is over: the exception (or the return value) reaches Celery.
Ended(w, outcome) == [w EXCEPT !.pc = "done", !.outcome = outcome]

\* tenacity's iter() after an attempt that raised exc: a non-matching
\* exception propagates as it is; a matching one is retried after a sleep,
\* or, when the stop condition holds, ends the run with the exception itself
\* under reraise and with RetryError otherwise.
AfterAttempt(w, exc) ==
    IF ~retry_if_exception_type(exc) THEN Ended(w, exc)
    ELSE IF stop_after_attempt(w.attempt)
         THEN Ended(w, IF reraise THEN exc ELSE "RetryError")
         ELSE [w EXCEPT !.pc = "wait"]

\* The worker receives the oldest job message and calls
\* fetch_task_metadata(task_id).
worker_start ==
    /\ worker = NoJob
    /\ jobs # <<>>
    /\ worker' = [pc |-> "fetch", task_id |-> Head(jobs), attempt |-> 1,
                  results |-> <<>>, waits |-> <<>>, before |-> RowOf(Head(jobs)),
                  metadata |-> None, task |-> None, outcome |-> "running"]
    /\ jobs' = Tail(jobs)
    /\ UNCHANGED <<store, cache, cache_up, req, last, nreq, tokens, probe, clock, limiter, auth>>

\* resp = await client.get(...); resp.raise_for_status(); resp.json()
worker_fetch ==
    /\ worker.pc = "fetch"
    /\ \E res \in FetchResults, doc \in ExternalDocuments(worker.task_id) :
           LET w == [worker EXCEPT !.results = Append(@, res)]
           IN  worker' = IF res = "ok"
                         THEN [w EXCEPT !.pc = "load", !.metadata = Some(doc)]
                         ELSE AfterAttempt(w, res)
    /\ UNCHANGED <<store, cache, cache_up, jobs, req, last, nreq, tokens, probe, clock, limiter, auth>>

\* The sleep between two attempts.
worker_wait ==
    /\ worker.pc = "wait"
    /\ worker' = [worker EXCEPT !.pc = "fetch",
                                !.waits = Append(@, wait_exponential(worker.attempt)),
                                !.attempt = @ + 1]
    /\ UNCHANGED <<store, cache, cache_up, jobs, req, last, nreq, tokens, probe, clock, limiter, auth>>

\* Variant of worker_load that treats a task that is gone as a failed fetch.
worker_load_missing_is_error ==
    /\ worker.pc = "load"
    /\ \E fails \in BOOLEAN :
           worker' = IF fails THEN AfterAttempt(worker, "SQLAlchemyError")
                     ELSE IF worker.task_id \in DOMAIN tasks
                          THEN [worker EXCEPT !.pc = "commit",
                                              !.task = RowOf(worker.task_id)]
                          ELSE AfterAttempt(worker, "HTTPStatusError")
    /\ UNCHANGED <<store, cache, cache_up, jobs, req, last, nreq, tokens, probe, clock, limiter, auth>>

\* task = await crud_task.get_task_by_id(db, task_id); a task that is gone
\* is logged and the run returns normally.  The query may fail.
worker_load ==
    /\ worker.pc = "load"
    /\ \E fails \in BOOLEAN :
           worker' = IF fails THEN AfterAttempt(worker, "SQLAlchemyError")
                     ELSE IF worker.task_id \in DOMAIN tasks
                          THEN [worker EXCEPT !.pc = "commit",
                                              !.task = RowOf(worker.task_id)]
                          ELSE Ended(worker, "ok")
    /\ UNCHANGED <<store, cache, cache_up, jobs, req, last, nreq, tokens, probe, clock, limiter, auth>>

\* Variant of worker_commit that writes what celery_app/helpers.py writes:
\* the description along with the metadata.
worker_commit_with_description ==
    /\ worker.pc = "commit"
    /\ \E fails \in BOOLEAN :
           IF fails \/ worker.task_id \notin DOMAIN tasks
           THEN /\ tasks' = tasks
                /\ worker' = AfterAttempt(worker, "SQLAlchemyError")
           ELSE /\ tasks' = [tasks EXCEPT ![worker.task_id].task_metadata = worker.metadata,
                                          ![worker.task_id].description = Some("fetched")]
                /\ worker' = [worker EXCEPT !.pc = "refresh"]
    /\ UNCHANGED <<role, next_task_id, owners, comments, next_comment_id, cache,
                   cache_up, jobs, req, last, nreq, tokens, probe, clock, limiter, auth>>

\* Variant of worker_commit that writes back every column of the task object
\* it loaded.
worker_commit_whole_row ==
    /\ worker.pc = "commit"
    /\ \E fails \in BOOLEAN :
           IF fails \/ worker.task_id \notin DOMAIN tasks
           THEN /\ tasks' = tasks
                /\ worker' = AfterAttempt(worker, "SQLAlchemyError")
           ELSE /\ tasks' = [tasks EXCEPT ![worker.task_id] =
                                 [Val(worker.task) EXCEPT !.task_metadata = worker.metadata]]
                /\ worker' = [worker EXCEPT !.pc = "refresh"]
    /\ UNCHANGED <<role, next_task_id, owners, comments, next_comment_id, cache,
                   cache_up, jobs, req, last, nreq, tokens, probe, clock, limiter, auth>>

\* Variant of worker_commit that writes only while the metadata is unset.
worker_commit_once ==
    /\ worker.pc = "commit"
    /\ \E fails \in BOOLEAN :
           IF fails \/ worker.task_id \notin DOMAIN tasks
           THEN /\ tasks' = tasks
                /\ worker' = AfterAttempt(worker, "SQLAlchemyError")
           ELSE /\ tasks' = IF tasks[worker.task_id].task_metadata = None
                            THEN [tasks EXCEPT ![worker.task_id].task_metadata =
                                                  worker.metadata]
                            ELSE tasks
                /\ worker' = [worker EXCEPT !.pc = "refresh"]
    /\ UNCHANGED <<role, next_task_id, owners, comments, next_comment_id, cache,
                   cache_up, jobs, req, last, nreq, tokens, probe, clock, limiter, auth>>

\* update_task_metadata: task.task_metadata = metadata; db.add(task);
\* await db.commit().  The UPDATE names the row by its id and sets the one
\* column; it fails when the store does or when the row is gone.
worker_commit ==
    /\ worker.pc = "commit"
    /\ \E fails \in BOOLEAN :
           IF fails \/ worker.task_id \notin DOMAIN tasks
           THEN /\ tasks' = tasks
                /\ worker' = AfterAttempt(worker, "SQLAlchemyError")
           ELSE /\ tasks' = [tasks EXCEPT ![worker.task_id].task_metadata =
                                             worker.metadata]
                /\ worker' = [worker EXCEPT !.pc = "refresh"]
    /\ UNCHANGED <<role, next_task_id, owners, comments, next_comment_id, cache,
                   cache_up, jobs, req, last, nreq, tokens, probe, clock, limiter, auth>>

\* await db.refresh(task): a SELECT of the row after the commit.  It fails
\* when the store does or when the row is gone.
worker_refresh ==
    /\ worker.pc = "refresh"
    /\ \E fails \in BOOLEAN :
           worker' = IF fails \/ worker.task_id \notin DOMAIN tasks
                     THEN AfterAttempt(worker, "SQLAlchemyError")
                     ELSE Ended(worker, "ok")
    /\ UNCHANGED <<store, cache, cache_up, jobs, req, last, nreq, tokens, probe, clock, limiter, auth>>

\* Celery records the outcome; the worker is free for the next job.
worker_done ==
    /\ worker.pc = "done"
    /\ worker' = NoJob
    /\ UNCHANGED <<store, cache, cache_up, jobs, req, last, nreq, tokens, probe, clock, limiter, auth>>

\* Tasks are created and deleted, one request at a time, while the worker
\* runs the jobs that the creations enqueue.
NextWorker ==
    \/ \E u \in Users : StartCreateTask(1, u, "t", "pending", None)
    \/ \E u \in Users, t \in TaskIds : StartDeleteTask(1, u, t)
    \/ create_task_insert(1)
    \/ delete_task_load(1) \/ delete_task_commit(1)
    \/ InvalidateDelete(1) \/ InvalidateKeys(1)
    \/ Return(1)
    \/ worker_start \/ worker_fetch \/ worker_wait
    \/ worker_load \/ worker_commit \/ worker_refresh \/ worker_done

SpecWorker == InitConcurrent /\ [][NextWorker]_vars

\* -------------------------------------------- enrichment among requests
\* At-least-once delivery: the broker hands a job's message to the worker
\* again after the run is over.
job_redelivered ==
    /\ worker.pc = "done"
    /\ jobs' = Append(jobs, worker.task_id)
    /\ worker' = NoJob
    /\ UNCHANGED <<store, cache, cache_up, req, last, nreq, tokens, probe, clock, limiter, auth>>

\* Tasks are created by a regular user and read and updated by anyone, one
\* request at a time, while the worker runs the enrichment jobs, some of
\* them more than once.
NextEnrichment ==
    \/ StartCreateTask(1, NUsers, "t", "pending", None)
    \/ \E u \in Users, t \in TaskIds : StartGetTask(1, u, t)
    \/ \E u \in Users, t \in TaskIds, upd \in TaskUpdates : StartUpdateTask(1, u, t, upd)
    \/ create_task_insert(1)
    \/ get_task_cached(1) \/ get_task_query(1) \/ get_task_store(1)
    \/ update_task_load(1) \/ update_task_commit(1)
    \/ InvalidateDelete(1) \/ InvalidateKeys(1)
    \/ Return(1)
    \/ worker_start \/ worker_fetch \/ worker_wait
    \/ worker_load \/ worker_commit \/ worker_refresh \/ worker_done
    \/ job_redelivered

\* No task exists yet: every task has its enrichment job enqueued.
InitEnrichment == InitConcurrent /\ tasks = <<>>

SpecEnrichment == InitEnrichment /\ [][NextEnrichment]_vars

\* ---------------------------------------------------- cache keys applied
\* make_task_cache_key and make_user_tasks_cache_key applied to principals
\* and filter dicts: f1 is a dict as get_tasks builds it, f2 is f1 after any
\* number of dict operations (entries moved, assigned, deleted).
ProbeUserIds == {1, NUsers, 11}
ProbeNames == {"page", "status", "title_contains"}
ProbeValues == {None, Some("1"), Some("a"), Some("b"), Some("a_title_contains:b")}
ProbeDicts ==
    { << <<"page", Some("1")>>, <<"status", None>>, <<"title_contains", None>> >>,
      << <<"page", Some("1")>>, <<"status", Some("a")>>, <<"title_contains", Some("b")>> >>,
      << <<"status", Some("a")>>, <<"title_contains", Some("b")>> >> }

Probed(user_id, f1, f2) ==
    [pc |-> "made", user_id |-> user_id, f1 |-> f1, f2 |-> f2,
     key1 |-> make_task_cache_key(user_id, f1),
     key2 |-> make_task_cache_key(user_id, f2),
     patterns |-> [u \in ProbeUserIds |-> make_user_tasks_cache_key(u)]]

probe_frame ==
    UNCHANGED <<store, cache, cache_up, jobs, req, last, nreq, tokens, worker, clock, limiter, auth>>

probe_start ==
    /\ probe = NoProbe
    /\ \E u \in ProbeUserIds, f \in ProbeDicts : probe' = Probed(u, f, f)
    /\ probe_frame

\* the same dict built with two neighbouring entries in the other order
probe_reorder ==
    /\ probe.pc = "made"
    /\ \E i \in 1..(Len(probe.f2) - 1) :
           probe' = Probed(probe.user_id, probe.f1,
                           [probe.f2 EXCEPT ![i] = probe.f2[i + 1],
                                            ![i + 1] = probe.f2[i]])
    /\ probe_frame

\* filters[name] = value: in place when the name is present, else appended
probe_assign ==
    /\ probe.pc = "made"
    /\ \E name \in ProbeNames, value \in ProbeValues :
           LET f == probe.f2
               at == {i \in DOMAIN f : f[i][1] = name}
           IN  probe' = Probed(probe.user_id, probe.f1,
                               IF at = {} THEN Append(f, <<name, value>>)
                               ELSE [i \in DOMAIN f |->
                                        IF i \in at THEN <<name, value>> ELSE f[i]])
    /\ probe_frame

\* del filters[name]
probe_delete ==
    /\ probe.pc = "made"
    /\ \E i \in DOMAIN probe.f2 :
           probe' = Probed(probe.user_id, probe.f1,
                           SubSeq(probe.f2, 1, i - 1) \o
                           SubSeq(probe.f2, i + 1, Len(probe.f2)))
    /\ probe_frame

NextKeys == probe_start \/ probe_reorder \/ probe_assign \/ probe_delete

SpecKeys == InitEnrichment /\ [][NextKeys]_vars

\* ------------------------------------------------------------ expiry
\* Redis SETEX: an entry set with expire_seconds = ttl is gone once ttl
\* seconds have passed since it was set.  Time passes, in steps of
\* TickSeconds, at any point of a request; the entries whose time is up
\* leave the cache.
TickSeconds == {100, 500, 86000}
MaxTicks == 2

Live(c, now) == [k \in {k \in DOMAIN c : now - c[k].at < c[k].ttl} |-> c[k]]

TimePasses ==
    /\ clock.ticks < MaxTicks
    /\ \E d \in TickSeconds :
          /\ clock' = [now |-> clock.now + d, ticks |-> clock.ticks + 1]
          /\ cache' = Live(cache, clock.now + d)
    /\ UNCHANGED <<store, cache_up, jobs, req, last, nreq, tokens, worker, probe, limiter, auth>>

\* The handlers that read through the cache, and create_task with a token,
\* one request at a time.
NextExpiry ==
    \/ \E u \in Users : StartCreateTask(1, u, "t", "pending", Some("k1"))
    \/ \E u \in Users, q \in TaskListQueries : StartGetTasks(1, u, q)
    \/ \E u \in Users, t \in TaskIds : StartGetTask(1, u, t)
    \/ \E u \in Users : StartGetTaskStats(1, u)
    \/ \E u \in Users, q \in CommentListQueries : StartGetComments(1, u, q)
    \/ create_task_lookup(1) \/ create_task_insert(1) \/ create_task_record(1)
    \/ get_tasks_cached(1) \/ get_tasks_query(1) \/ get_tasks_store(1)
    \/ get_task_cached(1) \/ get_task_query(1) \/ get_task_store(1)
    \/ get_task_stats_cached(1) \/ get_task_stats_query(1) \/ get_task_stats_store(1)
    \/ get_comments_cached(1) \/ get_comments_query(1) \/ get_comments_store(1)
    \/ InvalidateKeys(1)
    \/ Return(1)
    \/ TimePasses

SpecExpiry == Init /\ [][NextExpiry]_vars

\* -------------------------------------------------------- validation
\* Task lists asked with date filters, and task updates, one request at a
\* time.
NextValidation ==
    \/ \E u \in Users, q \in DatedTaskListQueries : StartGetTasks(1, u, q)
    \/ \E u \in Users, t \in TaskIds, upd \in TaskUpdates : StartUpdateTask(1, u, t, upd)
    \/ get_tasks_cached(1) \/ get_tasks_query(1) \/ get_tasks_store(1)
    \/ update_task_load(1) \/ update_task_commit(1)
    \/ InvalidateDelete(1) \/ InvalidateKeys(1)
    \/ Return(1)

SpecValidation == InitConcurrent /\ [][NextValidation]_vars

\* ------------------------------------------------------- rate limits
\* @limiter.limit("10/minute") on login, @limiter.limit("50/minute") on
\* create_task
LoginLimit == 10
CreateTaskLimit == 50

Addresses == {"10.0.0.1", "10.0.0.2"}

\* The starlette Request of a client at addr.  No middleware or dependency of
\* the application assigns request.state.user: state has no attribute.
Request(addr) == [client |-> addr, state |-> <<>>]

get_remote_address(request) == request.client

\* routes/task.py get_user_id_key
get_user_id_key(request) ==
    IF "user" \in DOMAIN request.state
    THEN "user:" \o ToString(request.state.user.id)
    ELSE get_remote_address(request)

\* The key a hit of the endpoint is counted under: the endpoint's scope and
\* its limiter's key_func.
LimitKey(endpoint, request) ==
    <<endpoint, IF endpoint = "login" THEN get_remote_address(request)
                ELSE get_user_id_key(request)>>

Limit(endpoint) == IF endpoint = "login" THEN LoginLimit ELSE CreateTaskLimit

Hits(key) == IF key \in DOMAIN limiter.storage THEN limiter.storage[key] ELSE 0

\* Limiter.limit's wrapper: whether RateLimitExceeded is raised, and the
\* storage after the hit is counted.
RateLimitExceeded(endpoint, request) ==
    Hits(LimitKey(endpoint, request)) >= Limit(endpoint)

Counted(endpoint, request) ==
    LET key == LimitKey(endpoint, request)
    IN  (key :> Hits(key) + 1) @@ limiter.storage

\* POST /tasks/ at the limiter: custom_rate_limit_handler answers 429, or the
\* hit is counted and create_task is called.
create_task_limited(user_id, addr) ==
    /\ LET request == Request(addr)
           answer(status) == [endpoint |-> "create_task", user_id |-> user_id,
                              addr |-> addr, status |-> status]
       IN  limiter' =
             IF RateLimitExceeded("create_task", request)
             THEN [limiter EXCEPT !.last = answer(429)]
             ELSE [storage |-> Counted("create_task", request),
                   created |-> [limiter.created EXCEPT ![user_id] = @ + 1],
                   last |-> answer(201)]
    /\ UNCHANGED <<store, cache, cache_up, jobs, req, last, nreq, tokens, worker, probe,
                   clock, auth>>

\* The windows of all keys run out: a minute without a request.
minute_passes ==
    /\ limiter.storage # <<>>
    /\ limiter' = NoHits
    /\ UNCHANGED <<store, cache, cache_up, jobs, req, last, nreq, tokens, worker, probe,
                   clock, auth>>

\* ------------------------------------------------------- authentication
\* The users table's credentials: crud/user.py create_user stores
\* get_password_hash(password); verify_password checks a password against it.
Email(u) == "user" \o ToString(u) \o "@example.com"
Password(u) == "password" \o ToString(u)
get_password_hash(password) == <<"bcrypt", password>>
verify_password(plain_password, hashed_password) ==
    get_password_hash(plain_password) = hashed_password

Usernames == {Email(u) : u \in Users} \cup {"nobody@example.com"}
Passwords == {Password(u) : u \in Users} \cup {"wrong"}

\* crud/user.py authenticate_user: the user's id, or None
authenticate_user(email, password) ==
    LET found == {u \in Users : Email(u) = email}
    IN  IF found # {} /\ verify_password(password,
                                         get_password_hash(Password(CHOOSE u \in found : TRUE)))
        THEN Some(CHOOSE u \in found : TRUE)
        ELSE None

\* jose: a token is its claims signed with a key.
jwt_encode(claims, key) == <<"jwt", claims, key>>
jwt_decode(token, key) == IF token[3] = key THEN Some(token[2]) ELSE None

\* core/security.py create_access_token: data["user_id"] raises KeyError
\* (None here) when the dict has no such key.
create_access_token(data) ==
    IF "user_id" \notin DOMAIN data THEN None
    ELSE Some(jwt_encode([sub |-> ToString(data.user_id), role |-> data.role], "SECRET_KEY"))

\* routes/auth.py login behind its limiter: 429, 401, or the token; an
\* exception of create_access_token reaches general_exception_handler, 500.
login(addr, username, password) ==
    /\ LET request == Request(addr)
           answer(status, token) ==
               [kind |-> "login", username |-> username, password |-> password,
                status |-> status, token |-> token]
           user == authenticate_user(username, password)
           token_data == [sub |-> ToString(Val(user)), role |-> role[Val(user)],
                          email |-> Email(Val(user)), scope |-> "access"]
           access_token == create_access_token(token_data)
       IN  IF RateLimitExceeded("login", request)
           THEN /\ limiter' = [limiter EXCEPT !.last =
                                 [endpoint |-> "login", addr |-> addr, status |-> 429]]
                /\ auth' = answer(429, None)
           ELSE /\ limiter' = [limiter EXCEPT
                                 !.storage = Counted("login", request),
                                 !.last = [endpoint |-> "login", addr |-> addr,
                                           status |-> 0]]
                /\ auth' = IF user = None THEN answer(401, None)
                           ELSE IF access_token = None THEN answer(500, None)
                           ELSE answer(200, access_token)
    /\ UNCHANGED <<store, cache, cache_up, jobs, req, last, nreq, tokens, worker, probe,
                   clock>>

\* Bearer tokens a client may present: signed by the service or not, for a
\* user of the table or not.
BearerTokens ==
    {jwt_encode([sub |-> ToString(u), role |-> r], k) :
       u \in 1..(NUsers + 1), r \in Roles, k \in {"SECRET_KEY", "guess"}}

\* api/deps.py get_current_user: the user's id, or None for the 401
get_current_user(token) ==
    LET payload == jwt_decode(token, "SECRET_KEY")
    IN  IF payload = None THEN None
        ELSE IF \E u \in Users : ToString(u) = Val(payload).sub
             THEN Some(CHOOSE u \in Users : ToString(u) = Val(payload).sub)
             ELSE None

\* routes/user.py read_current_user: GET /users/me
read_current_user(token) ==
    /\ LET current_user == get_current_user(token)
       IN  auth' = IF current_user = None
                   THEN [kind |-> "me", token |-> token, status |-> 401, user |-> None]
                   ELSE [kind |-> "me", token |-> token, status |-> 200,
                         user |-> Some([id |-> Val(current_user),
                                        email |-> Email(Val(current_user)),
                                        role |-> role[Val(current_user)]])]
    /\ UNCHANGED <<store, cache, cache_up, jobs, req, last, nreq, tokens, worker, probe,
                   clock, limiter>>

\* One user creating tasks from two addresses, and failed logins from one.
NextRateLimit ==
    \/ \E addr \in Addresses : create_task_limited(NUsers, addr)
    \/ login("10.0.0.1", Email(1), "wrong")
    \/ minute_passes

SpecRateLimit == InitEnrichment /\ [][NextRateLimit]_vars

NextAuth ==
    \/ \E addr \in Addresses, username \in Usernames, password \in Passwords :
           login(addr, username, password)
    \/ \E token \in BearerTokens : read_current_user(token)
    \/ minute_passes

SpecAuth == InitEnrichment /\ [][NextAuth]_vars

\* ------------------------------------------------------------ access
\* A regular user asking for, updating and deleting tasks by id, two
\* requests in flight.
StartAccess(s) ==
    /\ \A s2 \in Slots : s2 < s => Running(s2)
    /\ \/ \E t \in TaskIds : StartGetTask(s, NUsers, t)
       \/ \E t \in TaskIds, upd \in TaskUpdates : StartUpdateTask(s, NUsers, t, upd)
       \/ \E t \in TaskIds : StartDeleteTask(s, NUsers, t)

StepAccess(s) ==
    \/ get_task_cached(s) \/ get_task_query(s) \/ get_task_store(s)
    \/ update_task_load(s) \/ update_task_commit(s)
    \/ delete_task_load(s) \/ delete_task_commit(s)
    \/ InvalidateDelete(s) \/ InvalidateKeys(s)
    \/ Return(s)

NextAccess == \E s \in Slots : StartAccess(s) \/ StepAccess(s)

SpecAccess == InitConcurrent /\ [][NextAccess]_vars

\* ------------------------------------------------- tokens and patterns
\* Idempotency-Key headers that look like cache keys and patterns.
HostileTokens == {Some("tasks:user:1:x"), Some("task:1")}

\* Tasks created with such tokens and task lists read into the cache, then
\* the handlers that invalidate, one request at a time, while the records
\* age.
NextTokens ==
    \/ \E u \in Users, k \in HostileTokens : StartCreateTask(1, u, "t", "pending", k)
    \/ \E u \in Users, q \in TaskListQueries : StartGetTasks(1, u, q)
    \/ \E u \in Users, t \in TaskIds : StartUpdateTask(1, u, t, [title |-> Some("u"), status |-> None])
    \/ \E u \in Users, t \in TaskIds : StartCreateComment(1, u, t, "c")
    \/ create_task_lookup(1) \/ create_task_insert(1) \/ create_task_record(1)
    \/ get_tasks_cached(1) \/ get_tasks_query(1) \/ get_tasks_store(1)
    \/ update_task_load(1) \/ update_task_commit(1)
    \/ create_comment_load(1) \/ create_comment_insert(1)
    \/ InvalidateDelete(1) \/ InvalidateKeys(1) \/ InvalidateDel(1)
    \/ Return(1)
    \/ TimePasses

SpecTokens == InitConcurrent /\ [][NextTokens]_vars

\* ------------------------------------------------- the second background job
\* What client.get("https://jsonplaceholder.typicode.com/todos/1") can end
\* in: a response with a status code, or an exception of the client.
FetchAnswers == {"200", "404", "RequestError"}

\* The documents /todos/1 may serve, with and without a title.
FetchedDocuments ==
    {[id |-> 1, completed |-> FALSE],
     [id |-> 1, title |-> "delectus", completed |-> FALSE]}

\* f"{data.get('title')} (fetched from API)"
FetchedDescription(data) ==
    (IF "title" \in DOMAIN data THEN data.title ELSE "None") \o " (fetched from API)"

\* The worker is handed fetch_and_update_task(task_id); no handler of the
\* application enqueues it, so the id is whatever the caller passed.
fetch_and_update_task(task_id) ==
    /\ worker = NoJob
    /\ worker' = [pc |-> "fau_fetch", task_id |-> task_id, attempt |-> 1,
                  results |-> <<>>, waits |-> <<>>, before |-> RowOf(task_id),
                  metadata |-> None, task |-> None, outcome |-> "running"]
    /\ UNCHANGED <<store, cache, cache_up, jobs, req, last, nreq, tokens, probe, clock, limiter, auth>>

\* response = await client.get(...); if response.status_code == 200:
\* data = response.json().  Any other status ends the run; an exception of
\* the client reaches Celery, the function has no retry.
fetch_external_data ==
    /\ worker.pc = "fau_fetch"
    /\ \E res \in FetchAnswers, doc \in FetchedDocuments :
           LET w == [worker EXCEPT !.results = Append(@, res)]
           IN  worker' = IF res = "200"
                         THEN [w EXCEPT !.pc = "fau_update", !.metadata = Some(doc)]
                         ELSE IF res = "RequestError" THEN Ended(w, res)
                         ELSE Ended(w, "ok")
    /\ UNCHANGED <<store, cache, cache_up, jobs, req, last, nreq, tokens, probe, clock, limiter, auth>>

\* task_data = {"description": ..., "task_metadata": data};
\* await crud_task.update_task(db, task_id, task_data): an UPDATE of the row
\* with that id, if there is one, and a commit.
fetch_external_data_and_update ==
    /\ worker.pc = "fau_update"
    /\ \E fails \in BOOLEAN :
           IF fails
           THEN /\ tasks' = tasks
                /\ worker' = Ended(worker, "SQLAlchemyError")
           ELSE /\ tasks' = IF worker.task_id \in DOMAIN tasks
                            THEN [tasks EXCEPT
                                    ![worker.task_id].description =
                                        Some(FetchedDescription(Val(worker.metadata))),
                                    ![worker.task_id].task_metadata = worker.metadata]
                            ELSE tasks
                /\ worker' = Ended(worker, "ok")
    /\ UNCHANGED <<role, next_task_id, owners, comments, next_comment_id, cache,
                   cache_up, jobs, req, last, nreq, tokens, probe, clock, limiter, auth>>

\* Tasks are created, one request at a time, while the worker runs the
\* second job for one task or another.
NextSecondJob ==
    \/ StartCreateTask(1, NUsers, "t", "pending", None)
    \/ create_task_insert(1)
    \/ InvalidateKeys(1)
    \/ Return(1)
    \/ \E t \in TaskIds : fetch_and_update_task(t)
    \/ fetch_external_data \/ fetch_external_data_and_update \/ worker_done

SpecSecondJob == InitConcurrent /\ [][NextSecondJob]_vars

\* =============================================================== properties
Ret(s, kind) == At(s, "ret") /\ req[s].kind = kind
Ops(r) == {r.ops[i] : i \in DOMAIN r.ops}
TaskListKeysOf(u) ==
    {k \in DOMAIN cache :
        Len(k) >= 3 /\ k[1] = "tasks" /\ k[2] = "user" /\ k[3] = ToString(u)}
CommentListKeys == {k \in DOMAIN cache : k[1] = "comments"}
OwnedEver(u) == {t \in DOMAIN owners : owners[t] = u}
TaskMutations == {"create_task", "update_task", "delete_task"}
CommentMutations == {"create_comment", "update_comment", "delete_comment"}

\* ---- C1
\* The request about to return repeats, with an Idempotency-Key header, the
\* create-task request that returned last.
SameCreateRequest(s) ==
    /\ Ret(s, "create_task") /\ req[s].status = 201
    /\ last.kind = "create_task"
    /\ last.uid = req[s].uid /\ last.a = req[s].a
    /\ req[s].a.idempotency_key # None

IdempotentResult(s) ==
    /\ req[s].body = last.body
    /\ "db_commit" \notin Ops(req[s])
    /\ "db_commit" \in Ops(last) =>
           Cardinality({t \in DOMAIN tasks : t >= last.body.id}) = 1

\* C1 as stated: the same create-task request issued twice in sequence with
\* the same Idempotency-Key yields identical response bodies and one task.
C1_SameKeyTwice == \A s \in Slots : SameCreateRequest(s) => IdempotentResult(s)

\* C1 amended: the same holds when the Idempotency-Key is not the empty string.
C1_SameNonEmptyKeyTwice ==
    \A s \in Slots :
        SameCreateRequest(s) /\ Val(req[s].a.idempotency_key) # "" => IdempotentResult(s)

C1_Witness ==
    \E s \in Slots :
        /\ SameCreateRequest(s)
        /\ req[s].a.idempotency_key = Some("k1")
        /\ req[s].from_cache
        /\ "db_commit" \in Ops(last)

\* ---- C2
\* C2: a read of tasks answered to a non-admin principal (get_task, get_tasks,
\* get_task_stats; from the cache or from the store) holds only tasks, and
\* counts of tasks, that the principal owns.
C2_TaskVisibility ==
    \A s \in Slots :
        At(s, "ret") /\ req[s].role # "admin" /\ req[s].status = 200 =>
            /\ req[s].kind = "get_task" => req[s].body.owner_id = req[s].uid
            /\ req[s].kind = "get_tasks" =>
                   \A i \in DOMAIN req[s].body.items :
                       req[s].body.items[i].owner_id = req[s].uid
            /\ req[s].kind = "get_task_stats" =>
                   /\ req[s].body.total <= Cardinality(OwnedEver(req[s].uid))
                   /\ \A st \in DOMAIN req[s].body.counts :
                          req[s].body.counts[st] <= Cardinality(OwnedEver(req[s].uid))

C2_Witness ==
    \E s \in Slots :
        /\ Ret(s, "get_tasks") /\ req[s].role # "admin" /\ req[s].from_cache
        /\ req[s].a.owner_id # None
        /\ Len(req[s].body.items) > 0
        /\ \E t \in Rows(tasks) : t.owner_id # req[s].uid

\* ---- C3
VisibleComment(c, u) ==
    c.user_id = u \/ (c.task_id \in DOMAIN owners /\ owners[c.task_id] = u)

\* C3: a principal whose role is not admin receives from get_comments and
\* get_comment only comments it wrote or that hang on a task it owns.
C3_CommentVisibility ==
    \A s \in Slots :
        At(s, "ret") /\ role[req[s].uid] # "admin" /\ req[s].role # "admin"
                     /\ req[s].status = 200 =>
            /\ req[s].kind = "get_comments" =>
                   \A i \in DOMAIN req[s].body.items :
                       VisibleComment(req[s].body.items[i], req[s].uid)
            /\ req[s].kind = "get_comment" => VisibleComment(req[s].body, req[s].uid)

\* ---- C4
\* C4: a get_task that follows a successful update_task of the same task
\* (no other write in between) returns the row as the update left it.
C4_ReadAfterUpdate ==
    \A s \in Slots :
        /\ Ret(s, "get_task") /\ req[s].status = 200
        /\ last.kind = "update_task" /\ last.a.task_id = req[s].a.task_id
        => req[s].body = last.body

C4_Witness ==
    \E s \in Slots :
        /\ Ret(s, "get_task") /\ req[s].status = 200
        /\ last.kind = "update_task" /\ last.a.task_id = req[s].a.task_id
        /\ last.a.updates.status = Some("completed")
        /\ req[s].body.status = "completed"

\* ---- C5
\* C5: when a successful update_task returns, by the owner or by an admin,
\* the cache holds no task-list entry of the task's owner.
C5_OwnerListsGoneAfterUpdate ==
    \A s \in Slots :
        Ret(s, "update_task") /\ req[s].status = 200 =>
            TaskListKeysOf(req[s].body.owner_id) = {}

C5_Witness ==
    \E s \in Slots :
        /\ Ret(s, "update_task") /\ req[s].status = 200
        /\ req[s].body.owner_id # req[s].uid
        /\ "cache_del_keys" \in Ops(req[s])

\* ---- C6
\* C6: when a successful delete_task returns, the cache holds neither the
\* task's detail key nor any task-list entry of the task's owner.
C6_DeleteInvalidatesOwner ==
    \A s \in Slots :
        Ret(s, "delete_task") /\ req[s].status = 204 =>
            /\ make_task_detail_cache_key(req[s].a.task_id) \notin DOMAIN cache
            /\ TaskListKeysOf(owners[req[s].a.task_id]) = {}

\* ---- C7
\* C7: an admin's get_tasks that follows a task create, update or delete by
\* a non-admin answers what the store holds, not the listing cached before.
C7_AdminListReflectsMutation ==
    \A s \in Slots :
        /\ Ret(s, "get_tasks") /\ IsAdmin(req[s]) /\ req[s].status = 200
        /\ last.kind \in TaskMutations /\ last.role # "admin"
        => req[s].body = BodyPage(get_tasks_response(tasks, req[s]))

\* ---- C8
MutatedOwner(l) ==
    IF l.kind = "create_task" THEN l.body.owner_id ELSE owners[l.a.task_id]

\* C8: a get_task_stats of U that follows a task create, update or delete on
\* U's tasks returns the counts the store holds.
C8_StatsReflectMutation ==
    \A s \in Slots :
        /\ Ret(s, "get_task_stats") /\ req[s].status = 200
        /\ last.kind \in TaskMutations /\ MutatedOwner(last) = req[s].uid
        => req[s].body = get_task_statistics(tasks, req[s].uid)

\* ---- C9
ParentTask(r) == IF r.kind = "create_comment" THEN r.a.task_id ELSE r.l.comment.task_id

\* C9: when a successful comment create, update or delete returns, the cache
\* holds neither the parent task's detail key nor any comment-list entry.
C9_CommentInvalidation ==
    \A s \in Slots :
        At(s, "ret") /\ req[s].kind \in CommentMutations /\ req[s].status < 400 =>
            /\ <<"task", ToString(ParentTask(req[s]))>> \notin DOMAIN cache
            /\ CommentListKeys = {}

C9_Witness ==
    \E s \in Slots :
        /\ At(s, "ret") /\ req[s].kind \in {"update_comment", "delete_comment"}
        /\ req[s].status < 400
        /\ "cache_del_keys" \in Ops(req[s])

\* ---- C10
InvalidationOps == {"cache_delete", "cache_delete_pattern", "cache_del_keys"}

IssuesInvalidation(s) ==
    /\ Running(s) /\ Running(s)'
    /\ Len(req[s].ops') > Len(req[s].ops)
    /\ req[s].ops'[Len(req[s].ops')] \in InvalidationOps

\* C10: a mutating handler issues a cache delete or delete-by-pattern only
\* after its store mutation has committed, and a request that ends in
\* 400, 403 or 404 has issued none.
C10_InvalidateAfterCommit ==
    /\ [][\A s \in Slots : IssuesInvalidation(s) => req[s].committed]_vars
    /\ [](\A s \in Slots :
             At(s, "ret") /\ req[s].status \in {400, 403, 404} =>
                 Ops(req[s]) \cap InvalidationOps = {})

C10_Witness ==
    \E s \in Slots :
        /\ At(s, "ret") /\ req[s].kind \in TaskMutations \cup CommentMutations
        /\ req[s].committed
        /\ "cache_delete" \in Ops(req[s]) /\ "cache_del_keys" \in Ops(req[s])

\* ---- C11
DetailValue(task_id) == cache[make_task_detail_cache_key(task_id)].v

\* C11: nothing orders a read's cache population against a concurrent
\* update: the get_task step that writes the detail key writes the row the
\* request read from the store earlier, whatever has been committed and
\* invalidated since.
C11_ReadCachesItsSnapshot ==
    [][\A s \in Slots :
          At(s, "gt_cache_set") /\ req'[s].pc = "ret" =>
              DetailValue(req[s].a.task_id)' = JsonTask(req[s].l.task)]_vars

\* Both requests have completed, the update last, and the detail cache
\* holds the pre-update row.
C11_Witness ==
    /\ \A s \in Slots : ~Running(s)
    /\ nreq = 2
    /\ last.kind = "update_task" /\ last.a.updates.status = Some("completed")
    /\ last.a.task_id \in DOMAIN tasks
    /\ tasks[last.a.task_id].status = "completed"
    /\ make_task_detail_cache_key(last.a.task_id) \in DOMAIN cache
    /\ DetailValue(last.a.task_id).status = "pending"

\* ---- C12
PersistedFor(k) == {t \in DOMAIN tasks : tokens[t] = Some(k)}

\* C12: however the non-overlapping attempts that carry one idempotency
\* token end (response, failure, abandoned at an await and retried), the
\* store holds at most one task created for that token.
C12_AtMostOneTaskPerToken == Cardinality(PersistedFor("k1")) <= 1

\* ---- C13
StoredResponse(r) ==
    cache_get(cache, cache_up, idempotency_cache_key(Val(r.a.idempotency_key)))

\* C13: the create_task step that finds a stored response for the request's
\* token ends the handler with that response and leaves tables, cache and
\* job queue as they were; the request has done nothing but the lookup when
\* its response leaves.
C13_StoredResponseChangesNothing ==
    [][\A s \in Slots :
          /\ At(s, "ct_idem_get") /\ StoredResponse(req[s]) # None /\ req'[s] # req[s]
             => /\ req'[s].pc = "ret" /\ req'[s].status = 201
                /\ req'[s].body = BodyTask(TaskRead_parse(Val(StoredResponse(req[s]))))
                /\ UNCHANGED <<store, cache, jobs, tokens>>
          /\ Ret(s, "create_task") /\ req[s].from_cache /\ ~Running(s)'
             => /\ req[s].ops = <<"cache_get">>
                /\ UNCHANGED <<store, cache, jobs, tokens>>]_vars

\* A create_task answered from its idempotency record while the caller's
\* task list is cached and the first request's job is the only one queued.
C13_Witness ==
    \E s \in Slots :
        /\ Ret(s, "create_task") /\ req[s].from_cache
        /\ TaskListKeysOf(req[s].uid) # {}
        /\ Len(jobs) = 1

\* ---- C14
\* C14: nothing reserves a token: the insert step of a create_task that
\* missed the lookup persists a new task of the caller under the request's
\* token, whether or not a task of that token is persisted already.
C14_InsertIsUnconditional ==
    [][\A s \in Slots :
          At(s, "ct_insert") /\ req'[s] # req[s] =>
              /\ next_task_id \in DOMAIN tasks' /\ next_task_id \notin DOMAIN tasks
              /\ tasks'[next_task_id].owner_id = req[s].uid
              /\ tokens'[next_task_id] = req[s].a.idempotency_key
              /\ req'[s].committed /\ req'[s].status = 201]_vars

\* Two requests in flight at once carry the same token and have both
\* persisted a task for it.
C14_Witness ==
    /\ Cardinality(PersistedFor("k1")) = 2
    /\ \A s \in {1, 2} :
           /\ Running(s) /\ req[s].kind = "create_task" /\ req[s].committed
           /\ req[s].a.idempotency_key = Some("k1")
    /\ req[1].l.task.id # req[2].l.task.id

\* ---- C15
\* C15: once an idempotency record exists for a token, no step of any request
\* changes or removes the response stored under it.
C15_RecordNeverChanges ==
    [][LET key == idempotency_cache_key("k1")
       IN  cache_get(cache, TRUE, key) # None =>
               cache_get(cache', TRUE, key) = cache_get(cache, TRUE, key)]_vars

\* ---- C16
\* C16: a request served without the cache's help, Redis being up or down,
\* completes with the result of a cache miss: a create_task answers 201 with
\* the task it inserted, a get_task that found its task answers with a task
\* of the requested id.
C16_CompletesAsOnMiss ==
    \A s \in Slots :
        At(s, "ret") /\ ~req[s].from_cache =>
            /\ req[s].kind = "create_task" =>
                   /\ req[s].status = 201
                   /\ req[s].body = BodyTask(TaskRead_from_orm(req[s].l.task))
            /\ req[s].kind = "get_task" /\ req[s].status = 200 =>
                   req[s].body.id = req[s].a.task_id

\* ---- C17
\* C17: an invalidation step that finds Redis unreachable leaves the store as
\* committed and, when it is the handler's last, hands back the success
\* status the handler had reached.
C17_InvalidationFailureSwallowed ==
    [][\A s \in Slots :
          /\ ~cache_up
          /\ At(s, "invalidate") \/ At(s, "invalidate_del")
          /\ req'[s] # req[s]
          => /\ UNCHANGED store
             /\ req'[s].pc = "ret" =>
                    req'[s].status = req[s].status /\ req[s].status \in {200, 201, 204}]_vars

\* ---- C18
\* C18: a run whose every fetch ended in a network error has made exactly
\* three attempts, is over with the network error as its outcome, and has
\* left the task's metadata as it was.
C18_ExhaustedRunEndsInNetworkError ==
    /\ worker.pc \in {"wait", "done"} /\ worker.results # <<>>
        /\ (\A i \in DOMAIN worker.results : worker.results[i] = "RequestError")
        => Len(worker.results) <= 3
    /\ worker.pc = "done" /\ worker.results # <<>>
        /\ (\A i \in DOMAIN worker.results : worker.results[i] = "RequestError")
        => /\ Len(worker.results) = 3
           /\ worker.outcome = "RequestError"
           /\ RowOf(worker.task_id) \in {None, worker.before}

\* ---- C19
\* C19: the worker sleeps 2 s before the second attempt of a run and 4 s
\* before the third.
C19_BackoffDoubles ==
    worker.pc # "idle" =>
        /\ Len(worker.waits) >= 1 => worker.waits[1] = 2
        /\ Len(worker.waits) >= 2 => worker.waits[2] = 4

\* ---- C20
\* C20: every attempt of a run but the last ended in a transport failure,
\* and a run that is over with a failure has left the task's row exactly as
\* it was when the run began.
C20_FailedRunLeavesTaskAsBefore ==
    /\ worker.pc # "idle" =>
           \A i \in 1..(worker.attempt - 1) :
               worker.results[i] \in {"RequestError", "HTTPStatusError"}
    /\ worker.pc = "done" /\ worker.outcome # "ok" =>
           RowOf(worker.task_id) \in {None, worker.before}

\* ---- C21
\* C21: a step of the enrichment run changes nothing in the store but the
\* metadata field of the run's own task, and the write of a successful run
\* sets that field to the fetched document: every other field of the task
\* and every other row are as the other requests left them.
C21_RunWritesMetadataOnly ==
    [][worker' # worker =>
          /\ UNCHANGED <<role, next_task_id, owners, comments, next_comment_id>>
          /\ DOMAIN tasks' = DOMAIN tasks
          /\ \A t \in DOMAIN tasks :
                 IF worker.pc = "commit" /\ worker'.pc = "refresh" /\ t = worker.task_id
                 THEN tasks'[t] = [tasks[t] EXCEPT !.task_metadata = worker.metadata]
                 ELSE tasks'[t] = tasks[t]]_vars

\* A run is over with success: its task carries the fetched document and is
\* otherwise the row the run found.
C21_Witness ==
    /\ worker.pc = "done" /\ worker.outcome = "ok"
    /\ worker.before # None /\ Val(worker.before).task_metadata = None
    /\ worker.metadata # None
    /\ RowOf(worker.task_id) =
           Some([Val(worker.before) EXCEPT !.task_metadata = worker.metadata])

\* ---- C22
\* C22: when an update_task of a task and an enrichment run on the same task
\* have both succeeded, however their steps interleaved, the task's row
\* holds the update's value in every field the update set and the run's
\* fetched document in the metadata field.
C22_UpdateAndRunBothKept ==
    \A s \in Slots :
        /\ At(s, "ret") /\ req[s].kind = "update_task" /\ req[s].status = 200
        /\ worker.pc = "done" /\ worker.outcome = "ok" /\ worker.task # None
        /\ worker.task_id = req[s].a.task_id
        => LET row == tasks[worker.task_id]
               upd == req[s].a.updates
           IN  /\ upd.title # None => row.title = Val(upd.title)
               /\ upd.status # None => row.status = Val(upd.status)
               /\ row.task_metadata = worker.metadata

\* The worker loaded the task, then the handler updated its title, then the
\* worker wrote: the task object the worker holds has the old title, the
\* handler's response has no metadata, the row has the new title and the
\* metadata.
C22_Witness ==
    /\ At(1, "ret") /\ req[1].kind = "update_task" /\ req[1].status = 200
    /\ worker.pc = "done" /\ worker.outcome = "ok" /\ worker.task # None
    /\ worker.task_id = req[1].a.task_id
    /\ req[1].a.updates.title = Some("u")
    /\ Val(worker.task).title = "t"
    /\ req[1].body.task_metadata = None
    /\ tasks[worker.task_id].title = "u"
    /\ tasks[worker.task_id].task_metadata = worker.metadata

\* ---- C23
\* C23: a run delivered again for a task that an earlier run has enriched
\* writes the metadata field alone, and once it is over with success the
\* task's metadata is the document this latest run fetched.
C23_RerunOverwritesMetadataOnly ==
    [][/\ worker.pc = "commit" /\ worker'.pc = "refresh"
          /\ tasks[worker.task_id].task_metadata # None
          => tasks' = [tasks EXCEPT ![worker.task_id].task_metadata = worker.metadata]
       /\ worker'.pc = "done" /\ worker'.outcome = "ok" /\ worker'.task # None
          => tasks'[worker'.task_id].task_metadata = worker'.metadata]_vars

\* A second run is over with success on a task whose first run had stored a
\* different document.
C23_Witness ==
    /\ worker.pc = "done" /\ worker.outcome = "ok" /\ worker.task # None
    /\ Val(worker.task).task_metadata # None
    /\ Val(worker.task).task_metadata # worker.metadata
    /\ tasks[worker.task_id] =
           [Val(worker.task) EXCEPT !.task_metadata = worker.metadata]

C25_ReadAfterRunSeesMetadata ==
    [][\A s \in Slots :
          /\ ~Running(s) /\ Running(s)' /\ req'[s].kind = "get_task"
          /\ req'[s].a.task_id \in DOMAIN tasks
          /\ tasks[req'[s].a.task_id].task_metadata # None
          /\ make_task_detail_cache_key(req'[s].a.task_id) \in DOMAIN cache
          => DetailValue(req'[s].a.task_id).task_metadata =
                 tasks[req'[s].a.task_id].task_metadata]_vars

\* ---- C26
\* C26: a job is handed to the broker only by a create_task that has
\* committed its insert, for the id of the task it inserted, in the step
\* that completes the request; a create_task that returns 201 for a task it
\* inserted has its id in the queue exactly once, and one answered from an
\* idempotency record has done nothing but the lookup.
C26_OneJobPerCreatedTask ==
    [][/\ jobs' # jobs =>
             \E s \in Slots :
                 /\ Running(s) /\ req[s].kind = "create_task"
                 /\ req[s].committed /\ ~req[s].from_cache
                 /\ req[s].l.task.id \in DOMAIN tasks
                 /\ jobs' = Append(jobs, req[s].l.task.id)
                 /\ \A i \in DOMAIN jobs : jobs[i] # req[s].l.task.id
                 /\ req'[s].pc = "ret"
       /\ \A s \in Slots :
             At(s, "ret") /\ req'[s] = Idle /\ req[s].kind = "create_task"
             /\ req[s].status = 201 =>
                 IF req[s].from_cache
                 THEN req[s].ops = <<"cache_get">> /\ ~req[s].committed
                 ELSE Cardinality({i \in DOMAIN jobs :
                                      jobs[i] = req[s].l.task.id}) = 1]_vars

\* A create_task with a token is about to return the task it inserted, and
\* the queue holds that task's job.
C26_Witness ==
    /\ At(1, "ret") /\ req[1].kind = "create_task" /\ req[1].status = 201
    /\ ~req[1].from_cache /\ req[1].committed
    /\ req[1].a.idempotency_key = Some("k1")
    /\ jobs = <<req[1].l.task.id>>

\* ---- C27
\* The entries of a filter dict that carry a value.
NonNull(f) == {f[i] : i \in {j \in DOMAIN f : f[j][2] # None}}

C28_DistinctFiltersDistinctKeys ==
    probe.pc = "made" /\ NonNull(probe.f1) # NonNull(probe.f2) =>
        /\ FilterStr(probe.f1) # FilterStr(probe.f2)
        /\ probe.key1 # probe.key2

\* ---- C29
\* C29: a principal's list key matches the invalidation pattern of that
\* principal and of no other, as strings under Redis' glob match and as
\* segment tuples under the match the cache model uses.
C29_KeyMatchesOwnPatternOnly ==
    probe.pc = "made" =>
        \A u \in ProbeUserIds :
            /\ StringGlobMatch(KeyString(probe.patterns[u]), KeyString(probe.key2))
                   <=> u = probe.user_id
            /\ GlobMatch(probe.patterns[u], probe.key2) <=> u = probe.user_id

\* The key of principal 11 with two filters set: principal 1's id is a
\* prefix of its id.
C29_Witness ==
    /\ probe.pc = "made" /\ probe.user_id = 11
    /\ Cardinality(NonNull(probe.f2)) = 2
    /\ StringGlobMatch(KeyString(probe.patterns[11]), KeyString(probe.key2))
    /\ ~StringGlobMatch(KeyString(probe.patterns[1]), KeyString(probe.key2))

\* The key a read-through handler looks up.
CacheKeyOf(r) ==
    CASE r.kind = "get_tasks" -> get_tasks_cache_key(r)
      [] r.kind = "get_comments" -> get_comments_cache_key(r)
      [] r.kind = "get_task" -> make_task_detail_cache_key(r.a.task_id)
      [] r.kind = "get_task_stats" -> task_stats_cache_key(r.uid)
      [] r.kind = "create_task" -> idempotency_cache_key(Val(r.a.idempotency_key))

\* ---- C30
\* C30: a value a read serves from the cache was written to the cache less
\* than T seconds earlier, with a lifetime of T seconds, where T depends on
\* the operation alone: task lists 300, comment lists 180, a single task
\* 600, task statistics 120, idempotency records 86400.
C30_ServedWithinLifetime ==
    [][\A s \in Slots :
          Running(s) /\ ~req[s].from_cache /\ req'[s].pc = "ret" /\ req'[s].from_cache =>
              LET r == req[s]
                  T == CASE r.kind = "get_tasks" -> 300
                         [] r.kind = "get_comments" -> 180
                         [] r.kind = "get_task" -> 600
                         [] r.kind = "get_task_stats" -> 120
                         [] r.kind = "create_task" -> 86400
                  entry == cache[CacheKeyOf(r)]
              IN  /\ CacheKeyOf(r) \in DOMAIN cache
                  /\ entry.ttl = T
                  /\ clock.now - entry.at < T
                  /\ clock.now - entry.at >= 0]_vars

\* A single task served from the entry set 500 seconds ago.
C30_Witness ==
    /\ At(1, "ret") /\ req[1].kind = "get_task" /\ req[1].from_cache
    /\ clock.now - cache[CacheKeyOf(req[1])].at = 500

\* ---- C31
\* C31: a get_tasks request whose created_after or created_before filter is
\* not a valid ISO date is answered with status 400.
C31_InvalidDateIs400 ==
    \A s \in Slots :
        /\ At(s, "ret") /\ req[s].kind = "get_tasks"
        /\ InvalidDateFilter(TaskFilters(req[s])) # None
        => req[s].status = 400

\* ---- C32
\* C32: a request rejected for a validation error (get_tasks with a malformed
\* date filter, update_task with a body that sets no field) has issued no
\* store query and no cache read, write or delete when it is rejected.
C32_RejectedBeforeStoreAndCache ==
    \A s \in Slots :
        /\ At(s, "ret")
        /\ \/ req[s].kind = "get_tasks" /\ InvalidDateFilter(TaskFilters(req[s])) # None
           \/ req[s].kind = "update_task" /\ req[s].status = 400
        => req[s].ops = <<>>

\* ---- C33
\* C33: within one minute an endpoint admits at most its limit of requests:
\* at most 10 logins from one client address and at most 50 task creations
\* by one authenticated user.
C33_AtMostLimitPerMinute ==
    /\ \A addr \in Addresses : Hits(<<"login", addr>>) <= LoginLimit
    /\ \A u \in Users : limiter.created[u] <= CreateTaskLimit

\* ---- C34
\* C34: a login with the credentials of an existing user, admitted by the
\* limiter, succeeds and returns an access token.
C34_LoginReturnsToken ==
    /\ auth.kind = "login"
    /\ authenticate_user(auth.username, auth.password) # None
    /\ auth.status # 429
    => auth.status = 200 /\ auth.token # None

\* ---- C35
\* C35: the task a create_task request is answered with is owned by the
\* principal of the request: an idempotency record made for one principal is
\* not returned to another who sends the same token.
C35_RecordStaysWithItsPrincipal ==
    \A s \in Slots :
        At(s, "ret") /\ req[s].kind = "create_task" /\ req[s].status = 201
        => req[s].body.owner_id = req[s].uid

\* ---- C36
\* C36: two responses a regular user receives from the same of get_task,
\* update_task and delete_task, one for the id of another user's task and
\* one for an id no task ever had, have the same status.
C36_NoAccessLooksTheSame ==
    \A s1 \in Slots, s2 \in Slots :
        /\ At(s1, "ret") /\ At(s2, "ret")
        /\ req[s1].kind = req[s2].kind
        /\ req[s1].kind \in {"get_task", "update_task", "delete_task"}
        /\ req[s1].role = "user" /\ req[s2].role = "user" /\ req[s1].uid = req[s2].uid
        /\ req[s1].a.task_id \in DOMAIN tasks
        /\ tasks[req[s1].a.task_id].owner_id # req[s1].uid
        /\ req[s2].a.task_id \notin DOMAIN owners
        => req[s1].status = req[s2].status

\* ---- C37
\* C37: the step on which an update_task or delete_task request ends in 400,
\* 403 or 404 leaves the task table and the cache as they were, the request
\* has issued nothing but its store read and an update that matched no row,
\* and a task is changed or deleted only by a request of an admin or of its
\* owner.
C37_RejectedLeavesTasksAndCache ==
    [][/\ \A s \in Slots :
             /\ Running(s) /\ req[s].kind \in {"update_task", "delete_task"}
             /\ req[s].pc # "ret" /\ req'[s].pc = "ret"
             /\ req'[s].status \in {400, 403, 404}
             => /\ tasks' = tasks /\ cache' = cache
                /\ req'[s].ops \in {<<"db_read">>, <<"db_read", "db_commit">>}
       /\ \A t \in DOMAIN tasks :
             (t \notin DOMAIN tasks' \/ tasks'[t] # tasks[t])
             => \E s \in Slots :
                   /\ Running(s) /\ req[s].kind \in {"update_task", "delete_task"}
                   /\ req[s].a.task_id = t
                   /\ req[s].role = "admin" \/ req[s].uid = tasks[t].owner_id]_vars

\* An update that ends in 404 because the task was deleted after the
\* update's ownership check, the task's cached copy still in place.
C37_Witness ==
    /\ At(1, "ret") /\ req[1].kind = "update_task" /\ req[1].status = 404
    /\ req[1].ops = <<"db_read", "db_commit">>
    /\ make_task_detail_cache_key(req[1].a.task_id) \in DOMAIN cache

\* ---- C38
\* C38: an idempotency record leaves the cache only when its lifetime is
\* over, and no key or pattern a handler is about to delete matches the
\* record's key as Redis compares them, whatever the token is.
C38_InvalidationKeepsRecords ==
    [][\A k \in DOMAIN cache :
          k[1] = "idempotency" =>
              /\ k \notin DOMAIN cache' => clock'.now - cache[k].at >= cache[k].ttl
              /\ \A s \in Slots :
                    Running(s) /\ req[s].l.plan # <<>> =>
                        ~StringGlobMatch(KeyString(Head(req[s].l.plan)[2]), KeyString(k))]_vars

\* User 1 has deleted the keys that match the pattern of their task lists
\* while the record of the token "tasks:user:1:x" is in the cache.
C38_Witness ==
    /\ At(1, "ret") /\ req[1].uid = 1 /\ req[1].kind = "update_task"
    /\ \E i \in DOMAIN req[1].ops : req[1].ops[i] = "cache_del_keys"
    /\ idempotency_cache_key("tasks:user:1:x") \in DOMAIN cache

\* ---- C39
\* C39: when the enrichment job looks its task up and the task is gone, that
\* step ends the run: the store is left as it is, no further attempt and no
\* wait follows, and the outcome is the normal return unless the lookup
\* itself failed in the store.
C39_DeletedTaskEndsQuietly ==
    [][/\ worker.pc = "load" /\ worker.task_id \notin DOMAIN tasks
       /\ worker' # worker
       => /\ store' = store
          /\ worker'.pc = "done"
          /\ worker'.attempt = worker.attempt /\ worker'.waits = worker.waits
          /\ worker'.outcome \in {"ok", "SQLAlchemyError"}]_vars

\* The task was there when the job started and its document was fetched; the
\* lookup found nothing and the run returned normally.
C39_Witness ==
    /\ worker.pc = "done" /\ worker.outcome = "ok"
    /\ worker.before # None /\ worker.metadata # None /\ worker.task = None
    /\ worker.task_id \notin DOMAIN tasks

\* ---- C40
\* C40: a step of the second background job leaves the title, the
\* description and the status of every task as they were, and the job
\* changes nothing when the external call answers anything but 200.
C40_SecondJobWritesOnlyMetadata ==
    [][worker.pc \in {"fau_fetch", "fau_update"} /\ worker' # worker
       => /\ DOMAIN tasks' = DOMAIN tasks
          /\ \A t \in DOMAIN tasks :
                /\ tasks'[t].title = tasks[t].title
                /\ tasks'[t].description = tasks[t].description
                /\ tasks'[t].status = tasks[t].status
          /\ worker.pc = "fau_fetch" => store' = store]_vars

====
